---- MODULE Spec2Model ----
(***************************************************************************)
(* State-machine model of network/src/participant.rs (BParticipant): the  *)
(* Send Manager, the Recv Manager, the Channel Attach Manager and the     *)
(* Shutdown Coordinator that run() joins, the stream and channel tables,  *)
(* the queues between them, and the API and peer that drive them.         *)
(***************************************************************************)
EXTENDS Integers, Sequences, FiniteSets, TLC

\* ------------------------------------------------------------ constants

BARR_CHANNEL == 1
BARR_RECV == 4
BARR_SEND == 2

\* offset_sid of the participant the tests build (Sid::new(1000)).
OffsetSid == 1000

\* `let cid = 0;` : the send half the Send Manager uses in every iteration.
ActiveCid == 0
\* const STREAM_BOUND: the capacity of the send queue a2b_msg
STREAM_BOUND == 10000

\* ------------------------------------------------------------ bounds

\* open_stream requests the API submits in one run
MaxOpens == 2
\* buffers the API pushes onto the send queue in one run (in BackSpec:
\* buffers it pushes beyond the capacity of the queue)
MaxMsgs == 2
\* protocol events the peer delivers in one run
MaxPeerEvents == 2
\* receive tasks with a replaced JoinHandle a cid may have when the caller
\* attaches that cid again
MaxOrphans == 1

\* channel ids the caller attaches (each once; ApiReattach submits one again)
Cids == {0, 1}

\* (prio, promises, guaranteed_bandwidth) of the open requests and of the
\* peer's OpenStream events (the values the tests use)
ParamSet == {<<7, "ENCRYPTED", 1000000>>, <<9, "ORDERED", 1000000>>}

\* the parameters of the k-th open request the caller submits: consecutive
\* requests differ (prio alternates, the bandwidth grows), so that a handle
\* or an event carrying another request's parameters shows
ParamOf(k) ==
    IF k % 2 = 1 THEN <<7, "ENCRYPTED", 1000000 * k>>
    ELSE <<9, "ORDERED", 1000000 * k>>

\* sids the peer names in its events: one that collides with the first
\* locally minted sid, one that does not
PeerSids == {OffsetSid, OffsetSid + 1000}

NoSid == 0 - 1

\* every sid a run can name
SidSet == (OffsetSid .. OffsetSid + MaxOpens) \cup PeerSids
NoParams == <<>>

\* scn.room of a transport whose peer keeps reading
NoStall == 0 - 1

VARIABLES
    \* BParticipant fields
    channels,          \* channel table: the cids inserted
    streams,           \* stream table: sid -> index of its StreamInfo in objs
    objs,              \* every StreamInfo/Stream pair ever created
    shutdown_barrier,
    \* send_mgr locals
    send_pc,           \* "wait_first" | "select" | "open" | "send" | "rem"
                       \* | "close" | "close_mbox" | "flush" | "done"
    send_protocols,    \* cids of the send halves held
    stream_ids,
    cur_open,          \* the open request whose create_stream is awaited
    cur_close,         \* the close request of the running iteration
    pending,           \* the protocol event whose send is awaited
    send_held,         \* the StreamInfo its delete_stream has removed (or 0)
    \* recv_mgr locals
    recv_pc,           \* "loop" | "event" | "close_mbox" | "done"
    recv_cur,          \* the funnel event being handled
    recv_held,         \* the StreamInfo its delete_stream has removed (or 0)
    recv_protocols,    \* cids with a JoinHandle in the map
    armed,             \* cids whose receive task is in flight (holds the half)
    orphans,           \* per cid: tasks in flight whose JoinHandle was replaced
    funnel,            \* hacky_recv: (cid, result) of completed receive tasks
    \* create_channel_mgr
    chan_pc,           \* "run" | "done"
    attachQ,           \* s2b_create_channel
    attaching,         \* cids of the attaches awaiting the channel table
    attachOpen,        \* the caller still holds s2b_create_channel_s
    attached,          \* cids the caller has submitted
    acked,             \* cids acknowledged on done_reply
    \* participant_shutdown_mgr
    shut_pc,           \* "wait" | "marked" | "wait1" | "wait2" | "done"
    shutdownReq,       \* the caller has sent the shutdown request
    timedOut,
    replied,           \* Ok(()) was sent on the reply
    \* queues
    openQ,             \* a2b_open_stream
    closeQ,            \* a2b_close_stream
    msgQ,              \* a2b_msg (bounded)
    addSendQ,          \* b2b_add_send_protocol
    addRecvQ,          \* b2b_add_recv_protocol
    closeSendQ,        \* b2b_close_send_protocol
    forceQ,            \* b2b_force_close_recv_protocol
    opened_out,        \* b2a_stream_opened: handles published to the API
    \* environment
    broken,            \* cids whose send half reports a protocol error
    crashed,           \* an unwrap()/assert! of run() panicked
    gone,              \* receivers, and the shutdown sender, the caller dropped
    \* history
    wire,              \* protocol events the Send Manager emitted, in order
    openLog,           \* what became of every open request taken
    closeLog,          \* what became of every close request taken
    lost,              \* buffers taken from the send queue and not emitted
    sendExits,         \* why the Send Manager left its loop
    pushed,            \* the sid every buffer was queued with, by buffer
    opensMade, msgCount, peerCount, attachClosedAtShutdown,
    \* the run's environment: what the caller and the peer may do in it
    scn

envVars == <<broken, crashed, gone, scn>>
histVars == <<wire, openLog, closeLog, lost, sendExits, pushed, opensMade,
              msgCount,
              peerCount, attachClosedAtShutdown>>
sendVars == <<send_pc, send_protocols, stream_ids, cur_open, cur_close,
              pending, send_held>>
recvVars == <<recv_pc, recv_cur, recv_held, recv_protocols, armed, orphans,
              funnel>>
chanVars == <<chan_pc, attachQ, attaching, attachOpen, attached, acked>>
shutVars == <<shut_pc, shutdownReq, timedOut, replied>>
tableVars == <<channels, streams, objs>>
queueVars == <<openQ, closeQ, msgQ, addSendQ, addRecvQ, closeSendQ, forceQ,
               opened_out>>

vars == <<channels, streams, objs, shutdown_barrier,
          send_pc, send_protocols, stream_ids, cur_open, cur_close, pending,
          send_held,
          recv_pc, recv_cur, recv_held, recv_protocols, armed, orphans,
          funnel,
          chan_pc, attachQ, attaching, attachOpen, attached, acked,
          shut_pc, shutdownReq, timedOut, replied,
          openQ, closeQ, msgQ, addSendQ, addRecvQ, closeSendQ, forceQ,
          opened_out, broken, crashed, gone,
          wire, openLog, closeLog, lost, sendExits, pushed, opensMade,
          msgCount, peerCount, attachClosedAtShutdown, scn>>

\* ------------------------------------------------------------ helpers

\* every order in which `for cid in lock.keys()` may visit the set S
Orders(S) ==
    {q \in [1..Cardinality(S) -> S] : \A i, j \in 1..Cardinality(S) :
                                         i # j => q[i] # q[j]}

\* a decrement that ignores the manager's constant
FetchSubOne(b, k) == b - 1

\* shutdown_barrier.fetch_sub(k, Ordering::Relaxed): the value stored
FetchSub(b, k) == b - k

\* the protocol events
OpenStreamEv(c, sid, p) ==
    [cid |-> c, type |-> "OpenStream", sid |-> sid, data |-> p, stamp |-> 0]
MessageEv(c, m) ==
    [cid |-> c, type |-> "Message", sid |-> m.sid, data |-> m.buf, stamp |-> 0]
CloseStreamEv(c, sid, stamp) ==
    [cid |-> c, type |-> "CloseStream", sid |-> sid, data |-> 0, stamp |-> stamp]
ShutdownEv(c) ==
    [cid |-> c, type |-> "Shutdown", sid |-> NoSid, data |-> 0, stamp |-> 0]

\* ------------------------------------------------------------ stream table

\* StreamInfo and the Stream handle that create_stream builds for (sid, p)
NewStreamInfo(sid, p, origin) ==
    [sid |-> sid, params |-> p, send_closed |-> FALSE, mbox |-> <<>>,
     mbox_closed |-> FALSE, api_closed |-> FALSE, recv_dropped |-> FALSE,
     origin |-> origin]

\* the stream table maps every sid in it to the index (>= 1) of its
\* StreamInfo; 0 stands for "no entry"
InTable(tbl, sid) == tbl[sid] # 0

\* self.streams.write().await.insert(sid, ..): an existing entry is replaced
StreamsInsert(tbl, sid, idx) == [tbl EXCEPT ![sid] = idx]

\* a remove that leaves the entry in the table
StreamsRemoveKeep(tbl, sid) == tbl

\* self.streams.write().await.remove(&sid)
StreamsRemove(tbl, sid) == [tbl EXCEPT ![sid] = 0]

\* create_stream: the object list after the call.  A replaced StreamInfo is
\* dropped, and its mailbox sender with it; its send_closed flag, shared
\* with the handle, is left as it was.
CreateObjs(tbl, os, sid, p, origin) ==
    Append(IF InTable(tbl, sid)
           THEN [os EXCEPT ![tbl[sid]].mbox_closed = TRUE]
           ELSE os,
           NewStreamInfo(sid, p, origin))

\* delete_stream runs in two parts, with an await between them at which the
\* other managers and the API may run: the entry is removed and its flag
\* set; then the mailbox of the removed StreamInfo, which only the caller
\* holds by now, is closed.  An absent entry ends the call in its first part.

\* a first part that sets the flag of every stream
MarkRemovedAll(tbl, os, sid) ==
    [h \in 1..Len(os) |-> [os[h] EXCEPT !.send_closed = TRUE]]

\* `si.send_closed.store(true, ..)` on the StreamInfo that `remove` returned
MarkRemoved(tbl, os, sid) ==
    IF InTable(tbl, sid)
    THEN [os EXCEPT ![tbl[sid]].send_closed = TRUE]
    ELSE os

\* what `remove` returned: the index of the StreamInfo, 0 for None
Held(tbl, sid) == tbl[sid]

\* a second part that leaves the mailbox open
CloseHeldNone(os, h) == os

\* `si.b2a_msg_recv_s.lock().await.close()` on the StreamInfo held
CloseHeld(os, h) ==
    IF h # 0 THEN [os EXCEPT ![h].mbox_closed = TRUE] ELSE os

\* BParticipant is dropped, when run() returns or unwinds: the stream table
\* goes, and with it the mailbox sender of every StreamInfo in it or held
\* by a manager; the flags, shared with the handles, stay as they are
DropObjs(tbl, os, held) ==
    [h \in 1..Len(os) |->
        IF (\E s \in DOMAIN tbl : tbl[s] = h) \/ h \in held
        THEN [os[h] EXCEPT !.mbox_closed = TRUE]
        ELSE os[h]]

\* run() has taken self by value: the tables are dropped when it ends
RunDrop ==
    /\ channels' = {}
    /\ streams' = [s \in SidSet |-> 0]
    /\ objs' = DropObjs(streams, objs, {send_held, recv_held})

\* a coordinator that leaves the streams as they are
MarkObjsNone(tbl, os) == os

\* the coordinator's `for si in lock.values() { si.send_closed.store(true) }`
MarkObjs(tbl, os) ==
    [i \in 1..Len(os) |->
        IF \E s \in DOMAIN tbl : tbl[s] = i
        THEN [os[i] EXCEPT !.send_closed = TRUE]
        ELSE os[i]]

\* ------------------------------------------------------------ Init

InitWith(environment) ==
    /\ scn = environment
    /\ channels = {}
    /\ streams = [s \in SidSet |-> 0]
    /\ objs = << >>
    /\ shutdown_barrier = BARR_CHANNEL + BARR_SEND + BARR_RECV
    /\ send_pc = "wait_first"
    /\ send_protocols = {}
    /\ stream_ids = OffsetSid
    /\ cur_open = [params |-> NoParams, sid |-> NoSid, cid |-> ActiveCid]
    /\ cur_close = [sid |-> NoSid, stamp |-> 0]
    /\ pending = [cid |-> ActiveCid, type |-> "None", sid |-> NoSid, data |-> 0,
                  stamp |-> 0]
    /\ send_held = 0
    /\ recv_pc = "loop"
    /\ recv_cur = [cid |-> ActiveCid, type |-> "None", sid |-> NoSid,
                   data |-> 0, shared |-> FALSE]
    /\ recv_held = 0
    /\ recv_protocols = {}
    /\ armed = {}
    /\ orphans = [c \in Cids |-> 0]
    /\ funnel = << >>
    /\ chan_pc = "run"
    /\ attachQ = << >>
    /\ attaching = {}
    /\ attachOpen = TRUE
    /\ attached = {}
    /\ acked = {}
    /\ shut_pc = "wait"
    /\ shutdownReq = FALSE
    /\ timedOut = FALSE
    /\ replied = FALSE
    /\ openQ = << >>
    /\ closeQ = << >>
    /\ msgQ = << >>
    /\ addSendQ = << >>
    /\ addRecvQ = << >>
    /\ closeSendQ = << >>
    /\ forceQ = << >>
    /\ opened_out = << >>
    /\ broken = {}
    /\ crashed = FALSE
    /\ gone = {}
    /\ wire = << >>
    /\ openLog = << >>
    /\ closeLog = << >>
    /\ lost = {}
    /\ sendExits = << >>
    /\ pushed = << >>
    /\ opensMade = 0
    /\ msgCount = 0
    /\ peerCount = 0
    /\ attachClosedAtShutdown = FALSE

\* ------------------------------------------------------------ API and peer

\* the caller submits (cid, _, protocol, done_reply) on s2b_create_channel
ApiAttach(c) ==
    /\ ~crashed /\ attachOpen /\ c \notin attached /\ c \in scn.cids
    /\ attachQ' = Append(attachQ, c)
    /\ attached' = attached \cup {c}
    /\ UNCHANGED <<chan_pc, attaching, attachOpen, acked>>
    /\ UNCHANGED <<tableVars, shutdown_barrier, sendVars, recvVars, shutVars,
                   queueVars, envVars, histVars>>

\* the caller drops s2b_create_channel_s
ApiCloseAttach ==
    /\ ~crashed /\ attachOpen
    /\ attachOpen' = FALSE
    /\ UNCHANGED <<chan_pc, attachQ, attaching, attached, acked>>
    /\ UNCHANGED <<tableVars, shutdown_barrier, sendVars, recvVars, shutVars,
                   queueVars, envVars, histVars>>

\* The two ends of the shutdown request that the caller holds:
\* s2b_shutdown_bparticipant_s, until the request is sent on it, and the
\* receiver of the reply that the request carries.
ShutdownS == <<"shutdown_s", 0>>
ShutdownReplyR == <<"shutdown_reply", 0>>

\* the caller sends (timeout, reply) on s2b_shutdown_bparticipant: the
\* oneshot sender is consumed by the send, so it is still the caller's
ApiShutdown ==
    /\ ~crashed /\ ~shutdownReq /\ scn.shutdown
    /\ ShutdownS \notin gone
    /\ shutdownReq' = TRUE
    /\ attachClosedAtShutdown' =
         (/\ ~attachOpen /\ attachQ = << >> /\ attaching = {}
          /\ channels # {}
          /\ addSendQ = << >> /\ addRecvQ = << >>)
    /\ UNCHANGED <<shut_pc, timedOut, replied>>
    /\ UNCHANGED <<tableVars, shutdown_barrier, sendVars, recvVars, chanVars,
                   queueVars, envVars, wire, openLog, closeLog, lost,
                   sendExits, pushed, opensMade, msgCount, peerCount>>

\* the caller submits (prio, promises, bandwidth, reply) on a2b_open_stream
ApiOpen ==
    /\ ~crashed /\ send_pc # "done" /\ opensMade < scn.opens
    /\ openQ' = Append(openQ, ParamOf(opensMade + 1))
    /\ opensMade' = opensMade + 1
    /\ UNCHANGED <<closeQ, msgQ, addSendQ, addRecvQ, closeSendQ, forceQ,
                   opened_out>>
    /\ UNCHANGED <<tableVars, shutdown_barrier, sendVars, recvVars, chanVars,
                   shutVars, envVars, wire, openLog, closeLog, lost,
                   sendExits, pushed, msgCount, peerCount,
                   attachClosedAtShutdown>>

\* crossbeam_channel::bounded(cap): the queue holds cap tuples
QueueFull(q, cap) == Len(q) >= cap

\* the send queue after n buffers, numbered from k + 1, were pushed with sid
Pushed(q, sid, k, n) == q \o [i \in 1..n |-> [sid |-> sid, buf |-> k + i]]

\* a send that does not wait for room in the queue
ApiSendOverfull(h) ==
    /\ ~crashed /\ send_pc # "done"
    /\ msgCount < scn.msgs /\ msgCount >= scn.burst
    /\ ~objs[h].send_closed /\ ~objs[h].api_closed
    /\ msgQ' = Pushed(msgQ, objs[h].sid, msgCount, 1)
    /\ msgCount' = msgCount + 1
    /\ pushed' = Append(pushed, objs[h].sid)
    /\ UNCHANGED <<openQ, closeQ, addSendQ, addRecvQ, closeSendQ, forceQ,
                   opened_out>>
    /\ UNCHANGED <<tableVars, shutdown_barrier, sendVars, recvVars, chanVars,
                   shutVars, envVars, wire, openLog, closeLog, lost,
                   sendExits, opensMade, peerCount, attachClosedAtShutdown>>

\* Stream::send on handle h: refused once send_closed is set, else the
\* tuple (sid, buffer) enters the send queue; the sender waits while the
\* queue is full.  (A caller that starts with a burst sends one buffer at
\* a time after it.)
ApiSend(h) ==
    /\ ~crashed /\ send_pc # "done"
    /\ msgCount < scn.msgs /\ msgCount >= scn.burst
    /\ ~objs[h].send_closed /\ ~objs[h].api_closed
    /\ ~QueueFull(msgQ, scn.cap)
    /\ msgQ' = Pushed(msgQ, objs[h].sid, msgCount, 1)
    /\ msgCount' = msgCount + 1
    /\ pushed' = Append(pushed, objs[h].sid)
    /\ UNCHANGED <<openQ, closeQ, addSendQ, addRecvQ, closeSendQ, forceQ,
                   opened_out>>
    /\ UNCHANGED <<tableVars, shutdown_barrier, sendVars, recvVars, chanVars,
                   shutVars, envVars, wire, openLog, closeLog, lost,
                   sendExits, opensMade, peerCount, attachClosedAtShutdown>>

\* the caller's first scn.burst calls of Stream::send on handle h, made in
\* a row while no manager runs: none of them finds the queue full
ApiSendBurst(h) ==
    /\ ~crashed /\ send_pc # "done"
    /\ scn.burst > 0 /\ msgCount = 0
    /\ ~objs[h].send_closed /\ ~objs[h].api_closed
    /\ ~QueueFull(msgQ, scn.cap - scn.burst + 1)
    /\ msgQ' = Pushed(msgQ, objs[h].sid, 0, scn.burst)
    /\ msgCount' = scn.burst
    /\ pushed' = pushed \o [i \in 1..scn.burst |-> objs[h].sid]
    /\ UNCHANGED <<openQ, closeQ, addSendQ, addRecvQ, closeSendQ, forceQ,
                   opened_out>>
    /\ UNCHANGED <<tableVars, shutdown_barrier, sendVars, recvVars, chanVars,
                   shutVars, envVars, wire, openLog, closeLog, lost,
                   sendExits, opensMade, peerCount, attachClosedAtShutdown>>

\* closing handle h: its sid enters the close queue, once.  The caller
\* either drops the handle, and the receiver of the inbound mailbox with
\* it, or keeps the receiver to read what is left in the mailbox.
ApiClose(h, drop) ==
    /\ ~crashed /\ send_pc # "done"
    /\ ~objs[h].api_closed /\ drop \in scn.drop
    /\ closeQ' = Append(closeQ, [sid |-> objs[h].sid, stamp |-> msgCount])
    /\ objs' = [objs EXCEPT ![h].api_closed = TRUE,
                            ![h].recv_dropped = drop]
    /\ UNCHANGED <<openQ, msgQ, addSendQ, addRecvQ, closeSendQ, forceQ,
                   opened_out>>
    /\ UNCHANGED <<channels, streams, shutdown_barrier, sendVars, recvVars,
                   chanVars, shutVars, envVars, histVars>>

\* what a channel's recv() may return
PeerResults ==
    {[type |-> "OpenStream", sid |-> s, data |-> p, shared |-> FALSE] :
        s \in PeerSids, p \in ParamSet}
    \* the buffer of a Message comes in an Arc, which has one holder or more
    \cup {[type |-> "Message", sid |-> s, data |-> 0, shared |-> b] :
             s \in PeerSids, b \in BOOLEAN}
    \cup {[type |-> "CloseStream", sid |-> s, data |-> 0, shared |-> FALSE] :
             s \in PeerSids}
    \cup {[type |-> "Shutdown", sid |-> NoSid, data |-> 0, shared |-> FALSE],
          [type |-> "Err", sid |-> NoSid, data |-> 0, shared |-> FALSE]}

\* the receive task of channel c completes: `p.recv().await` returns r and
\* (cid, r, p) enters the funnel
PeerEvent(c, r) ==
    /\ ~crashed /\ recv_pc # "done" /\ c \in armed
    /\ peerCount < scn.peer /\ r \in scn.results
    /\ armed' = armed \ {c}
    /\ funnel' = Append(funnel,
                        [cid |-> c, type |-> r.type, sid |-> r.sid,
                         data |-> IF r.type = "Message"
                                  THEN peerCount + 1 ELSE r.data,
                         shared |-> r.shared])
    /\ peerCount' = peerCount + 1
    /\ UNCHANGED <<recv_pc, recv_cur, recv_held, recv_protocols, orphans>>
    /\ UNCHANGED <<tableVars, shutdown_barrier, sendVars, chanVars, shutVars,
                   queueVars, envVars, wire, openLog, closeLog, lost,
                   sendExits, pushed, opensMade, msgCount,
                   attachClosedAtShutdown>>

\* the caller submits a cid it has attached before, with the halves of
\* another transport, once the earlier attach has gone through both managers
ApiReattach(c) ==
    /\ ~crashed /\ attachOpen /\ c \in attached /\ c \in acked
    /\ attachQ = << >> /\ attaching = {}
    /\ addSendQ = << >> /\ addRecvQ = << >>
    /\ orphans[c] < MaxOrphans
    /\ attachQ' = Append(attachQ, c)
    /\ UNCHANGED <<chan_pc, attaching, attachOpen, attached, acked>>
    /\ UNCHANGED <<tableVars, shutdown_barrier, sendVars, recvVars, shutVars,
                   queueVars, envVars, histVars>>

\* a receive task of channel c whose JoinHandle was replaced completes:
\* `p.recv().await` returns r and (cid, r, p) enters the funnel
PeerEventOrphan(c, r) ==
    /\ ~crashed /\ recv_pc # "done" /\ orphans[c] > 0
    /\ peerCount < scn.peer /\ r \in scn.results
    /\ orphans' = [orphans EXCEPT ![c] = @ - 1]
    /\ funnel' = Append(funnel,
                        [cid |-> c, type |-> r.type, sid |-> r.sid,
                         data |-> IF r.type = "Message"
                                  THEN peerCount + 1 ELSE r.data,
                         shared |-> r.shared])
    /\ peerCount' = peerCount + 1
    /\ UNCHANGED <<recv_pc, recv_cur, recv_held, recv_protocols, armed>>
    /\ UNCHANGED <<tableVars, shutdown_barrier, sendVars, chanVars, shutVars,
                   queueVars, envVars, wire, openLog, closeLog, lost,
                   sendExits, pushed, opensMade, msgCount,
                   attachClosedAtShutdown>>

\* The receivers that the caller holds and run() sends to: the reply of
\* the k-th open request, the done_reply of the attach of cid c, and
\* stream_opened_out.
ReplyOf(k) == <<"reply", k>>
AckOf(c) == <<"done_reply", c>>
OpenedOut == <<"stream_opened", 0>>

\* the number of the open request with parameters p
ReqOf(p) == p[3] \div 1000000

\* the caller drops x while what it waits for is still to come: a
\* receiver, or s2b_shutdown_bparticipant_s without a request sent on it
ApiDrop(x) ==
    /\ ~crashed /\ x \in scn.gone /\ x \notin gone
    /\ \/ /\ x[1] = "reply"
          /\ \/ \E i \in 1..Len(openQ) : ReqOf(openQ[i]) = x[2]
             \/ send_pc = "open" /\ ReqOf(cur_open.params) = x[2]
       \/ /\ x[1] = "done_reply"
          /\ \/ \E i \in 1..Len(attachQ) : attachQ[i] = x[2]
             \/ x[2] \in attaching
       \/ /\ x = OpenedOut
          /\ recv_pc # "done"
       \/ /\ x = ShutdownS
          /\ ~shutdownReq
       \/ /\ x = ShutdownReplyR
          /\ shutdownReq /\ shut_pc # "done"
    /\ gone' = gone \cup {x}
    /\ UNCHANGED <<broken, crashed, scn>>
    /\ UNCHANGED <<tableVars, shutdown_barrier, sendVars, recvVars, chanVars,
                   shutVars, queueVars, histVars>>

\* the receivers a caller may drop, and the shutdown sender
Receivers ==
    {ReplyOf(k) : k \in 1..MaxOpens} \cup {AckOf(c) : c \in Cids}
    \cup {OpenedOut, ShutdownS, ShutdownReplyR}

\* the caller drops one of them
DropAny == \E x \in Receivers : ApiDrop(x)

\* the transport of channel c fails: its send half returns Err from now on
ChannelFail(c) ==
    /\ ~crashed /\ c \in channels /\ c \notin broken /\ c \in scn.fail
    /\ broken' = broken \cup {c}
    /\ UNCHANGED <<crashed, gone, scn>>
    /\ UNCHANGED <<tableVars, shutdown_barrier, sendVars, recvVars, chanVars,
                   shutVars, queueVars, histVars>>

\* ------------------------------------------------------------ send_mgr

\* The Send Manager awaits the transport at every `active.send(..)`, at the
\* flush, and at the flush and send on a removed half.  Each action below
\* runs from one of these awaits (or from the select) to the next one; the
\* other managers and the API run in between.

OpenEntry(p, sid, handle, emitted) ==
    [params |-> p, sid |-> sid, handle |-> handle, emitted |-> emitted,
     shutdown |-> shut_pc # "wait"]

CloseEntry(sid, deleted, emitted) ==
    [sid |-> sid, deleted |-> deleted, emitted |-> emitted]

NoClose == [sid |-> NoSid, stamp |-> 0]

\* no send is awaited
NoEvent == [cid |-> ActiveCid, type |-> "None", sid |-> NoSid, data |-> 0,
            stamp |-> 0]

\* the sid the open branch gives the stream, and the counter after it
MintSid(ids) == ids
\* a counter that is not advanced
NextStreamIdsSame(ids) == ids
NextStreamIds(ids) == ids + 1

\* `send_protocols.get_mut(&cid)` with cid = 0
HasActive(tbl) == ActiveCid \in tbl

\* a drain that yields nothing
DrainedNever(q, ev) == FALSE

\* whether `a2b_msg_r.try_iter()` yields another tuple after the send of ev
\* (or after the open branch): it does as long as one is queued
Drained(q, ev) == q # << >>

\* a drain that takes the newest tuple first
DrainEventsReversed(q) == MessageEv(ActiveCid, q[Len(q)])

\* the event of the tuple the iterator yields: the oldest one queued
DrainEvents(q) == MessageEv(ActiveCid, Head(q))

\* the send queue after the iterator has yielded a tuple
DrainRest(q) == Tail(q)

\* an error handling that keeps the failed half
RemoveFailedKeep(tbl) == tbl

\* `if let Err(e) = active_err { send_protocols.remove(&cid).unwrap(); }`
RemoveFailed(tbl) == tbl \ {ActiveCid}

\* `for (sid, buffer) in a2b_msg_r.try_iter()` after the send of ev has
\* returned Ok: the next tuple is taken and the manager awaits its send;
\* when none is queued the manager goes on to the close branch, or to the
\* flush
Drain(q, ev, close) ==
    IF Drained(q, ev)
    THEN /\ send_pc' = "send"
         /\ pending' = DrainEvents(q)
         /\ msgQ' = DrainRest(q)
    ELSE /\ send_pc' = IF close.sid # NoSid THEN "close" ELSE "flush"
         /\ pending' = NoEvent
         /\ msgQ' = q

\* One loop iteration after the select and the addp/remp handling, up to
\* its first await, with send table tbl and the open request `open` (or
\* NoParams) and close request `close` (or NoClose) the select returned:
\* the lookup of the active half; then, for an open request, the sid is
\* taken from stream_ids, the counter advanced, and create_stream awaits
\* the write lock of the stream table; else the first tuple of the drain.
Serve(tbl, open, close) ==
    LET hasOpen == open # NoParams
        hasClose == close.sid # NoSid
        sid == MintSid(stream_ids)
    IN
    IF ~HasActive(tbl)
    THEN \* warn!("no channel arrg"); continue
         /\ send_protocols' = tbl
         /\ send_pc' = "select"
         /\ openLog' = IF hasOpen
                       THEN Append(openLog, OpenEntry(open, NoSid, FALSE, FALSE))
                       ELSE openLog
         /\ closeLog' = IF hasClose
                        THEN Append(closeLog, CloseEntry(close.sid, FALSE, FALSE))
                        ELSE closeLog
         /\ UNCHANGED <<stream_ids, cur_open, streams, objs, msgQ, cur_close,
                        pending>>
    ELSE IF hasOpen
    THEN /\ send_protocols' = tbl
         /\ stream_ids' = NextStreamIds(stream_ids)
         /\ cur_open' = [params |-> open, sid |-> sid, cid |-> ActiveCid]
         /\ send_pc' = "open"
         /\ UNCHANGED <<streams, objs, msgQ, cur_close, pending, openLog,
                        closeLog>>
    ELSE /\ send_protocols' = tbl
         /\ cur_close' = close
         /\ Drain(msgQ, NoEvent, close)
         /\ UNCHANGED <<stream_ids, cur_open, streams, objs, openLog,
                        closeLog>>

\* the workaround before the loop: wait for the first add_send_protocol
SendFirst ==
    /\ ~crashed /\ send_pc = "wait_first"
    /\ IF addSendQ # << >>
       THEN /\ send_protocols' = send_protocols \cup {Head(addSendQ)}
            /\ addSendQ' = Tail(addSendQ)
       ELSE \* the attach manager is gone: recv() returns None
            /\ chan_pc = "done"
            /\ UNCHANGED <<send_protocols, addSendQ>>
    /\ send_pc' = "select"
    /\ UNCHANGED <<stream_ids, cur_open, cur_close, pending, send_held>>
    /\ UNCHANGED <<openQ, closeQ, msgQ, addRecvQ, closeSendQ, forceQ,
                   opened_out>>
    /\ UNCHANGED <<tableVars, shutdown_barrier, recvVars, chanVars, shutVars,
                   envVars, histVars>>

\* select! returns an open_stream request
SendSelOpen ==
    /\ ~crashed /\ send_pc = "select" /\ openQ # << >>
    /\ openQ' = Tail(openQ)
    /\ Serve(send_protocols, Head(openQ), NoClose)
    /\ UNCHANGED send_held
    /\ UNCHANGED <<closeQ, addSendQ, addRecvQ, closeSendQ, forceQ, opened_out>>
    /\ UNCHANGED <<channels, shutdown_barrier, recvVars, chanVars, shutVars,
                   envVars, wire, lost, sendExits, pushed, opensMade,
                   msgCount, peerCount, attachClosedAtShutdown>>

\* create_stream has the write lock: the stream is inserted under the sid
\* minted before the await, and the handle is sent on the request's reply;
\* the `unwrap()` of that send panics when the caller has dropped the
\* receiver.  The manager then awaits the send of OpenStream.
SendOpenCreate ==
    /\ ~crashed /\ send_pc = "open"
    /\ LET sid == cur_open.sid
           p == cur_open.params
           tbl == StreamsInsert(streams, sid, Len(objs) + 1)
           os == CreateObjs(streams, objs, sid, p, "local")
       IN IF ReplyOf(ReqOf(p)) \in gone
          THEN /\ crashed' = TRUE
               /\ channels' = {}
               /\ streams' = [s \in SidSet |-> 0]
               /\ objs' = DropObjs(tbl, os, {send_held, recv_held})
               /\ openLog' = Append(openLog, OpenEntry(p, sid, FALSE, FALSE))
               /\ UNCHANGED <<send_pc, cur_open, pending>>
          ELSE /\ streams' = tbl
               /\ objs' = os
               \* `emitted` is set when the send of OpenStream returns Ok
               /\ openLog' = Append(openLog, OpenEntry(p, sid, TRUE, FALSE))
               /\ send_pc' = "send"
               /\ pending' = OpenStreamEv(cur_open.cid, sid, p)
               /\ cur_open' = [params |-> NoParams, sid |-> NoSid,
                               cid |-> ActiveCid]
               /\ UNCHANGED <<crashed, channels>>
    /\ UNCHANGED <<send_protocols, stream_ids, cur_close, send_held>>
    /\ UNCHANGED queueVars
    /\ UNCHANGED <<shutdown_barrier, recvVars, chanVars, shutVars, broken,
                   gone, scn, wire, closeLog, lost, sendExits, pushed,
                   opensMade, msgCount, peerCount, attachClosedAtShutdown>>

\* select! returns a close_stream request
SendSelClose ==
    /\ ~crashed /\ send_pc = "select" /\ closeQ # << >>
    /\ closeQ' = Tail(closeQ)
    /\ Serve(send_protocols, NoParams, Head(closeQ))
    /\ UNCHANGED send_held
    /\ UNCHANGED <<openQ, addSendQ, addRecvQ, closeSendQ, forceQ, opened_out>>
    /\ UNCHANGED <<channels, shutdown_barrier, recvVars, chanVars, shutVars,
                   envVars, wire, lost, sendExits, pushed, opensMade,
                   msgCount, peerCount, attachClosedAtShutdown>>

\* select! returns the interval tick
SendSelTick ==
    /\ ~crashed /\ send_pc = "select"
    /\ Serve(send_protocols, NoParams, NoClose)
    /\ UNCHANGED send_held
    /\ UNCHANGED <<openQ, closeQ, addSendQ, addRecvQ, closeSendQ, forceQ,
                   opened_out>>
    /\ UNCHANGED <<channels, shutdown_barrier, recvVars, chanVars, shutVars,
                   envVars, wire, lost, sendExits, pushed, opensMade,
                   msgCount, peerCount, attachClosedAtShutdown>>

\* select! returns an add_send_protocol
SendSelAdd ==
    /\ ~crashed /\ send_pc = "select" /\ addSendQ # << >>
    /\ addSendQ' = Tail(addSendQ)
    /\ Serve(send_protocols \cup {Head(addSendQ)}, NoParams, NoClose)
    /\ UNCHANGED send_held
    /\ UNCHANGED <<openQ, closeQ, addRecvQ, closeSendQ, forceQ, opened_out>>
    /\ UNCHANGED <<channels, shutdown_barrier, recvVars, chanVars, shutVars,
                   envVars, wire, lost, sendExits, pushed, opensMade,
                   msgCount, peerCount, attachClosedAtShutdown>>

\* the transport of the active channel has taken `room` events and its
\* peer reads no more: a send on it stays pending
Stalled(w, room) == room # NoStall /\ Len(w) >= room

\* the send of `pending` on the active half returns.  Ok: the event is on
\* the wire and the iteration runs on to its next await.  Err: the `?`
\* ends the iteration and the half is removed; a Message that failed is
\* lost, the tuples still queued stay queued, a close request not yet
\* reached is dropped.
SendSent ==
    /\ ~crashed /\ send_pc = "send"
    /\ ~Stalled(wire, scn.room)
    /\ IF ActiveCid \notin broken
       THEN /\ wire' = Append(wire, pending)
            /\ UNCHANGED <<send_protocols, lost>>
            /\ CASE pending.type = "OpenStream" ->
                      /\ openLog' = [openLog EXCEPT
                                       ![Len(openLog)].emitted = TRUE]
                      /\ Drain(msgQ, pending, cur_close)
                      /\ UNCHANGED <<closeLog, cur_close>>
                 [] pending.type = "Message" ->
                      /\ Drain(msgQ, pending, cur_close)
                      /\ UNCHANGED <<openLog, closeLog, cur_close>>
                 [] OTHER ->
                      \* CloseStream: the flush is next
                      /\ closeLog' = Append(closeLog,
                                            CloseEntry(pending.sid, TRUE, TRUE))
                      /\ cur_close' = NoClose
                      /\ send_pc' = "flush"
                      /\ pending' = NoEvent
                      /\ UNCHANGED <<openLog, msgQ>>
       ELSE /\ send_protocols' = RemoveFailed(send_protocols)
            /\ send_pc' = "select"
            /\ pending' = NoEvent
            /\ lost' = IF pending.type = "Message"
                       THEN lost \cup {pending.data} ELSE lost
            /\ closeLog' =
                 IF cur_close.sid # NoSid
                 THEN Append(closeLog,
                             CloseEntry(cur_close.sid,
                                        pending.type = "CloseStream", FALSE))
                 ELSE closeLog
            /\ cur_close' = NoClose
            /\ UNCHANGED <<wire, openLog, msgQ>>
    /\ UNCHANGED <<stream_ids, cur_open, send_held>>
    /\ UNCHANGED <<openQ, closeQ, addSendQ, addRecvQ, closeSendQ, forceQ,
                   opened_out>>
    /\ UNCHANGED <<tableVars, shutdown_barrier, recvVars, chanVars, shutVars,
                   envVars, sendExits, pushed, opensMade, msgCount, peerCount,
                   attachClosedAtShutdown>>

\* the flush that ends the iteration returns; Err removes the half
SendFlushed ==
    /\ ~crashed /\ send_pc = "flush"
    /\ send_protocols' = IF ActiveCid \notin broken THEN send_protocols
                         ELSE RemoveFailed(send_protocols)
    /\ send_pc' = "select"
    /\ UNCHANGED <<stream_ids, cur_open, cur_close, pending, send_held>>
    /\ UNCHANGED queueVars
    /\ UNCHANGED <<tableVars, shutdown_barrier, recvVars, chanVars, shutVars,
                   envVars, histVars>>

\* a remove that leaves the half in the table
RemoveHalfKeep(tbl, cid) == tbl

\* the send table after `send_protocols.remove(&cid)`
RemoveHalf(tbl, cid) == tbl \ {cid}

\* a loop that is never left
SendBreaksNever(tbl) == FALSE

\* a loop that is left after every close_send_protocol
SendBreaksAlways(tbl) == TRUE

\* `if send_protocols.is_empty() { break; }` after a close_send_protocol
SendBreaks(tbl) == tbl = {}

\* the iteration after the `match send_protocols.remove(&cid)`, with send
\* table tbl and cq left of the close_send_protocol queue: leave the loop
\* when the table is empty, else go on with the active half
AfterRem(tbl, cq) ==
    IF SendBreaks(tbl)
    THEN /\ send_pc' = "done"
         /\ send_protocols' = tbl
         /\ pending' = NoEvent
         /\ shutdown_barrier' = FetchSub(shutdown_barrier, BARR_SEND)
         /\ sendExits' = Append(sendExits, "close_send_protocol")
         \* the receivers the manager owned are dropped with it
         /\ closeSendQ' = << >>
         /\ addSendQ' = << >>
         /\ UNCHANGED <<stream_ids, cur_open, cur_close, streams, objs,
                        msgQ, openLog, closeLog>>
    ELSE /\ closeSendQ' = cq
         /\ Serve(tbl, NoParams, NoClose)
         /\ UNCHANGED <<shutdown_barrier, sendExits, addSendQ>>

\* select! returns a close_send_protocol: the half is taken out of the
\* table and the manager awaits its flush and the send of Shutdown on it;
\* a cid that is not in the table goes on at once
SendSelRem ==
    /\ ~crashed /\ send_pc = "select" /\ closeSendQ # << >>
    /\ LET cid == Head(closeSendQ)
           tbl == RemoveHalf(send_protocols, cid)
       IN IF cid \in send_protocols
          THEN /\ send_protocols' = tbl
               /\ send_pc' = "rem"
               /\ pending' = ShutdownEv(cid)
               /\ closeSendQ' = Tail(closeSendQ)
               /\ UNCHANGED <<stream_ids, cur_open, cur_close, streams, objs,
                              msgQ, openLog, closeLog, shutdown_barrier,
                              sendExits, addSendQ>>
          ELSE AfterRem(tbl, Tail(closeSendQ))
    /\ UNCHANGED send_held
    /\ UNCHANGED <<openQ, closeQ, addRecvQ, forceQ, opened_out>>
    /\ UNCHANGED <<channels, recvVars, chanVars, shutVars, envVars, wire,
                   lost, pushed, opensMade, msgCount, peerCount,
                   attachClosedAtShutdown>>

\* the flush and the send of Shutdown on the removed half return (their
\* results are ignored), then the loop is left or the iteration goes on
SendRemoved ==
    /\ ~crashed /\ send_pc = "rem"
    /\ wire' = IF pending.cid \notin broken THEN Append(wire, pending)
               ELSE wire
    /\ AfterRem(send_protocols, closeSendQ)
    /\ UNCHANGED send_held
    /\ UNCHANGED <<openQ, closeQ, addRecvQ, forceQ, opened_out>>
    /\ UNCHANGED <<channels, recvVars, chanVars, shutVars, envVars, lost,
                   pushed, opensMade, msgCount, peerCount,
                   attachClosedAtShutdown>>

\* the close branch of an iteration that took a close request, first part
\* of delete_stream: `self.streams.write().await.remove(&sid)`, the write
\* lock released at the end of the statement, and the flag of the removed
\* StreamInfo; the manager then awaits the mutex of its mailbox.  With no
\* entry of the sid the call is over and the manager awaits the send of
\* CloseStream.
SendCloseRemove ==
    /\ ~crashed /\ send_pc = "close"
    /\ streams' = StreamsRemove(streams, cur_close.sid)
    /\ objs' = MarkRemoved(streams, objs, cur_close.sid)
    /\ send_held' = Held(streams, cur_close.sid)
    /\ IF InTable(streams, cur_close.sid)
       THEN /\ send_pc' = "close_mbox"
            /\ UNCHANGED pending
       ELSE /\ send_pc' = "send"
            /\ pending' = CloseStreamEv(ActiveCid, cur_close.sid,
                                        cur_close.stamp)
    /\ UNCHANGED <<send_protocols, stream_ids, cur_open, cur_close>>
    /\ UNCHANGED queueVars
    /\ UNCHANGED <<channels, shutdown_barrier, recvVars, chanVars,
                   shutVars, envVars, histVars>>

\* second part: the mailbox of the StreamInfo held is closed, after which
\* the manager awaits the send of CloseStream
SendCloseMbox ==
    /\ ~crashed /\ send_pc = "close_mbox"
    /\ objs' = CloseHeld(objs, send_held)
    /\ send_held' = 0
    /\ send_pc' = "send"
    /\ pending' = CloseStreamEv(ActiveCid, cur_close.sid, cur_close.stamp)
    /\ UNCHANGED <<send_protocols, stream_ids, cur_open, cur_close>>
    /\ UNCHANGED queueVars
    /\ UNCHANGED <<channels, streams, shutdown_barrier, recvVars, chanVars,
                   shutVars, envVars, histVars>>

\* ------------------------------------------------------------ recv_mgr

\* retrigger: spawn the receive task of cid and keep its JoinHandle
Retrigger(map, cid) == map \cup {cid}

\* retrigger's `recv_protocols.insert(cid, handle)` drops the JoinHandle it
\* replaces without aborting it: a task of cid still in flight runs on,
\* out of reach of remove_c
Orphaned(orph, live, cid) ==
    IF cid \in live THEN [orph EXCEPT ![cid] = @ + 1] ELSE orph

\* a remove_c that leaves the JoinHandle in the map
RemoveCKeep(map, cid) == map

\* remove_c: the map after `recv_protocols.remove(&cid)`
RemoveC(map, cid) == map \ {cid}

\* what remove_c returns: recv_protocols.is_empty()
RecvBreaks(map) == map = {}

\* b2b_close_send_protocol_s.send(cid): fails once the Send Manager is gone
CloseSendReq(q, cid) == IF send_pc = "done" THEN q ELSE Append(q, cid)

\* select! returns an add_recv_protocol
RecvAdd ==
    /\ ~crashed /\ recv_pc = "loop" /\ addRecvQ # << >>
    /\ addRecvQ' = Tail(addRecvQ)
    /\ recv_protocols' = Retrigger(recv_protocols, Head(addRecvQ))
    /\ armed' = armed \cup {Head(addRecvQ)}
    /\ orphans' = Orphaned(orphans, armed, Head(addRecvQ))
    /\ UNCHANGED <<recv_pc, recv_cur, recv_held, funnel>>
    /\ UNCHANGED <<openQ, closeQ, msgQ, addSendQ, closeSendQ, forceQ,
                   opened_out>>
    /\ UNCHANGED <<tableVars, shutdown_barrier, sendVars, chanVars, shutVars,
                   envVars, histVars>>

\* select! returns a force_close_recv_protocol: abort the task, exit when
\* the map is empty
RecvForce ==
    /\ ~crashed /\ recv_pc = "loop" /\ forceQ # << >>
    /\ LET cid == Head(forceQ)
           map == RemoveC(recv_protocols, cid)
       IN /\ recv_protocols' = map
          \* h.abort(): a task in flight is dropped with its half; a task
          \* that has completed is not affected
          /\ armed' = IF cid \in recv_protocols THEN armed \ {cid} ELSE armed
          /\ UNCHANGED <<orphans, recv_cur, recv_held>>
          /\ IF RecvBreaks(map)
             THEN /\ recv_pc' = "done"
                  /\ shutdown_barrier' = FetchSub(shutdown_barrier, BARR_RECV)
                  /\ forceQ' = << >>
                  /\ addRecvQ' = << >>
                  /\ funnel' = << >>
             ELSE /\ forceQ' = Tail(forceQ)
                  /\ UNCHANGED <<recv_pc, shutdown_barrier, addRecvQ, funnel>>
    /\ UNCHANGED <<openQ, closeQ, msgQ, addSendQ, closeSendQ, opened_out>>
    /\ UNCHANGED <<tableVars, sendVars, chanVars, shutVars, envVars, histVars>>

\* the mailbox of the stream of sid after `send(buffer)`; an absent stream
\* drops the buffer
Deliver(tbl, os, sid, buf) ==
    IF InTable(tbl, sid)
    THEN [os EXCEPT ![tbl[sid]].mbox = Append(@, buf)]
    ELSE os

\* `send(buffer)` on the mailbox of the stream of sid returns Err: the
\* stream is in the table and the handle, which owns the only receiver, has
\* been dropped
ReceiverGone(tbl, os, sid) ==
    InTable(tbl, sid) /\ os[tbl[sid]].recv_dropped

\* The Recv Manager awaits a lock of the stream table before it handles an
\* OpenStream, CloseStream or Message, and the mutex of the mailbox in the
\* middle of delete_stream.  Each action below runs from the select, or
\* from one of these awaits, to the next one.  The read lock that the
\* Message branch holds while it awaits the mutex keeps the table as it is
\* up to the `send`, so lookup and `send` are one step.

\* no event is being handled
NoResult == [cid |-> ActiveCid, type |-> "None", sid |-> NoSid, data |-> 0,
             shared |-> FALSE]

\* `Arc::try_unwrap(buffer)` on the buffer of event e returns Err: the Arc
\* has another holder
BufferShared(e) == e.type = "Message" /\ e.shared

\* select! returns a funnel event (cid, r, p) that is an OpenStream, a
\* CloseStream or a Message, and the manager awaits the lock of the stream
\* table.  For a Message the buffer is taken out of its Arc before that
\* await, whether or not the sid has a stream: the `unwrap()` panics when
\* the Arc is shared.
RecvEvent ==
    /\ ~crashed /\ recv_pc = "loop" /\ funnel # << >>
    /\ Head(funnel).type \in {"OpenStream", "CloseStream", "Message"}
    /\ funnel' = Tail(funnel)
    /\ recv_cur' = Head(funnel)
    /\ IF BufferShared(Head(funnel))
       THEN /\ crashed' = TRUE
            /\ RunDrop
            /\ UNCHANGED recv_pc
       ELSE /\ recv_pc' = "event"
            /\ UNCHANGED <<crashed, tableVars>>
    /\ UNCHANGED <<recv_held, recv_protocols, armed, orphans>>
    /\ UNCHANGED queueVars
    /\ UNCHANGED <<shutdown_barrier, sendVars, chanVars, shutVars, broken,
                   gone, scn, histVars>>

\* OpenStream: create_stream has the write lock and inserts the stream,
\* the handle is published on stream_opened_out and the channel re-armed;
\* the `unwrap()` of the publishing send panics when the caller has
\* dropped the receiver
RecvOpen ==
    /\ ~crashed /\ recv_pc = "event" /\ recv_cur.type = "OpenStream"
    /\ LET tbl == StreamsInsert(streams, recv_cur.sid, Len(objs) + 1)
           os == CreateObjs(streams, objs, recv_cur.sid, recv_cur.data,
                            "remote")
       IN IF OpenedOut \in gone
          THEN /\ crashed' = TRUE
               /\ channels' = {}
               /\ streams' = [s \in SidSet |-> 0]
               /\ objs' = DropObjs(tbl, os, {send_held, recv_held})
               /\ UNCHANGED <<recvVars, opened_out>>
          ELSE /\ objs' = os
               /\ streams' = tbl
               /\ opened_out' = Append(opened_out, Len(objs) + 1)
               /\ recv_protocols' = Retrigger(recv_protocols, recv_cur.cid)
               /\ armed' = armed \cup {recv_cur.cid}
               /\ orphans' = Orphaned(orphans, armed, recv_cur.cid)
               /\ recv_pc' = "loop"
               /\ recv_cur' = NoResult
               /\ UNCHANGED <<recv_held, funnel, crashed, channels>>
    /\ UNCHANGED <<openQ, closeQ, msgQ, addSendQ, addRecvQ, closeSendQ, forceQ>>
    /\ UNCHANGED <<shutdown_barrier, sendVars, chanVars, shutVars, broken,
                   gone, scn, histVars>>

\* Message, with the read lock of the stream table (the buffer was taken
\* out of its Arc before the await, in RecvEvent): the buffer is sent into
\* the mailbox of the stream and the channel re-armed; the `unwrap()` of a
\* `send` that fails panics
RecvMessage ==
    /\ ~crashed /\ recv_pc = "event" /\ recv_cur.type = "Message"
    /\ IF ReceiverGone(streams, objs, recv_cur.sid)
       THEN /\ crashed' = TRUE
            /\ RunDrop
            /\ UNCHANGED <<recvVars, broken, gone, scn>>
       ELSE /\ objs' = Deliver(streams, objs, recv_cur.sid, recv_cur.data)
            /\ recv_protocols' = Retrigger(recv_protocols, recv_cur.cid)
            /\ armed' = armed \cup {recv_cur.cid}
            /\ orphans' = Orphaned(orphans, armed, recv_cur.cid)
            /\ recv_pc' = "loop"
            /\ recv_cur' = NoResult
            /\ UNCHANGED <<recv_held, funnel, channels, streams, envVars>>
    /\ UNCHANGED queueVars
    /\ UNCHANGED <<shutdown_barrier, sendVars, chanVars, shutVars, histVars>>

\* CloseStream, first part of delete_stream; with no entry of the sid the
\* call is over and the channel is re-armed
RecvCloseRemove ==
    /\ ~crashed /\ recv_pc = "event" /\ recv_cur.type = "CloseStream"
    /\ streams' = StreamsRemove(streams, recv_cur.sid)
    /\ objs' = MarkRemoved(streams, objs, recv_cur.sid)
    /\ recv_held' = Held(streams, recv_cur.sid)
    /\ IF InTable(streams, recv_cur.sid)
       THEN /\ recv_pc' = "close_mbox"
            /\ UNCHANGED <<recv_cur, recv_protocols, armed, orphans>>
       ELSE /\ recv_protocols' = Retrigger(recv_protocols, recv_cur.cid)
            /\ armed' = armed \cup {recv_cur.cid}
            /\ orphans' = Orphaned(orphans, armed, recv_cur.cid)
            /\ recv_pc' = "loop"
            /\ recv_cur' = NoResult
    /\ UNCHANGED funnel
    /\ UNCHANGED queueVars
    /\ UNCHANGED <<channels, shutdown_barrier, sendVars, chanVars, shutVars,
                   envVars, histVars>>

\* CloseStream, second part of delete_stream: the mailbox of the StreamInfo
\* held is closed and the channel re-armed
RecvCloseMbox ==
    /\ ~crashed /\ recv_pc = "close_mbox"
    /\ objs' = CloseHeld(objs, recv_held)
    /\ recv_held' = 0
    /\ recv_protocols' = Retrigger(recv_protocols, recv_cur.cid)
    /\ armed' = armed \cup {recv_cur.cid}
    /\ orphans' = Orphaned(orphans, armed, recv_cur.cid)
    /\ recv_pc' = "loop"
    /\ recv_cur' = NoResult
    /\ UNCHANGED funnel
    /\ UNCHANGED queueVars
    /\ UNCHANGED <<channels, streams, shutdown_barrier, sendVars, chanVars,
                   shutVars, envVars, histVars>>

\* select! returns a funnel event whose result is Shutdown or Err: ask the
\* Send Manager to close the send half, drop the recv half, exit when the
\* map is empty
RecvShutdown ==
    /\ ~crashed /\ recv_pc = "loop" /\ funnel # << >>
    /\ Head(funnel).type \in {"Shutdown", "Err"}
    /\ LET cid == Head(funnel).cid
           map == RemoveC(recv_protocols, cid)
       IN /\ closeSendQ' = CloseSendReq(closeSendQ, cid)
          /\ recv_protocols' = map
          /\ IF RecvBreaks(map)
             THEN /\ recv_pc' = "done"
                  /\ shutdown_barrier' = FetchSub(shutdown_barrier, BARR_RECV)
                  /\ forceQ' = << >>
                  /\ addRecvQ' = << >>
                  /\ funnel' = << >>
             ELSE /\ funnel' = Tail(funnel)
                  /\ UNCHANGED <<recv_pc, shutdown_barrier, forceQ, addRecvQ>>
          \* remove_c aborts the task whose JoinHandle the map holds
          /\ armed' = armed \ {cid}
    /\ UNCHANGED <<orphans, recv_cur, recv_held>>
    /\ UNCHANGED <<openQ, closeQ, msgQ, addSendQ, opened_out>>
    /\ UNCHANGED <<tableVars, sendVars, chanVars, shutVars, envVars, histVars>>

\* ------------------------------------------------------------ create_channel_mgr

\* an attach that leaves the channel table as it is
ChannelsInsertNone(tbl, cid) == tbl

\* an attach that replaces the channel table by its own entry
ChannelsInsertAlone(tbl, cid) == {cid}

\* `lock.insert(cid, Mutex::new(ChannelInfo { cid, .. }))`
ChannelsInsert(tbl, cid) == tbl \cup {cid}

\* for_each_concurrent takes the next request from the attach input and
\* starts its future, which awaits the write lock of the channel table;
\* the futures of the requests taken before run on beside it
ChanTake ==
    /\ ~crashed /\ chan_pc = "run" /\ attachQ # << >>
    /\ attachQ' = Tail(attachQ)
    /\ attaching' = attaching \cup {Head(attachQ)}
    /\ UNCHANGED <<chan_pc, attachOpen, attached, acked>>
    /\ UNCHANGED <<tableVars, shutdown_barrier, sendVars, recvVars, shutVars,
                   queueVars, envVars, histVars>>

\* the attach of cid, one of those under way, has the write lock: insert
\* the ChannelInfo, hand the halves to the managers, acknowledge.  The two
\* `send(..).unwrap()` to the managers panic when the manager that owns the
\* receiver has returned, the one on done_reply when the caller has
\* dropped its receiver.
ChanAttach(cid) ==
    /\ ~crashed /\ chan_pc = "run" /\ cid \in attaching
    /\ attaching' = attaching \ {cid}
    /\ IF send_pc = "done" \/ recv_pc = "done"
       THEN /\ crashed' = TRUE
            /\ RunDrop
            /\ addSendQ' = IF send_pc = "done" THEN addSendQ
                           ELSE Append(addSendQ, cid)
            /\ UNCHANGED <<addRecvQ, acked>>
       ELSE IF AckOf(cid) \in gone
       THEN /\ crashed' = TRUE
            /\ RunDrop
            /\ addSendQ' = Append(addSendQ, cid)
            /\ addRecvQ' = Append(addRecvQ, cid)
            /\ UNCHANGED acked
       ELSE /\ channels' = ChannelsInsert(channels, cid)
            /\ addSendQ' = Append(addSendQ, cid)
            /\ addRecvQ' = Append(addRecvQ, cid)
            /\ acked' = acked \cup {cid}
            /\ UNCHANGED <<crashed, streams, objs>>
    /\ UNCHANGED <<chan_pc, attachQ, attachOpen, attached, broken, gone, scn>>
    /\ UNCHANGED <<openQ, closeQ, msgQ, closeSendQ, forceQ, opened_out>>
    /\ UNCHANGED <<shutdown_barrier, sendVars, recvVars, shutVars, histVars>>

\* an attach under way completes
ChanAttachAny == \E cid \in Cids : ChanAttach(cid)

\* an attach input that ends whenever nothing is queued on it
AttachInputEndedEarly(q, open) == q = << >>

\* the stream over s2b_create_channel_r ends: every sender is dropped and
\* every item has been taken
AttachInputEnded(q, open) == q = << >> /\ ~open

\* for_each_concurrent returns: the attach input has ended and every
\* future it started has completed
ChanExit ==
    /\ ~crashed /\ chan_pc = "run" /\ AttachInputEnded(attachQ, attachOpen)
    /\ attaching = {}
    /\ chan_pc' = "done"
    /\ shutdown_barrier' = FetchSub(shutdown_barrier, BARR_CHANNEL)
    /\ UNCHANGED <<attachQ, attaching, attachOpen, attached, acked>>
    /\ UNCHANGED <<tableVars, sendVars, recvVars, shutVars, queueVars,
                   envVars, histVars>>

\* ------------------------------------------------------------ participant_shutdown_mgr

\* a wait that returns as soon as any manager has exited
BarrierOpenAny(b) == b < BARR_CHANNEL + BARR_SEND + BARR_RECV

\* wait_for_manager returns: `if bytes == 0 { break; }`
BarrierOpen(b) == b = 0

\* `s2b_shutdown_bparticipant_r.await.unwrap()` returns.  The request has
\* arrived: mark every stream of the table send_closed.  Or the caller
\* has dropped the sender without a request: the unwrap panics and run()
\* unwinds.
ShutMark ==
    /\ ~crashed /\ shut_pc = "wait"
    /\ \/ /\ shutdownReq
          /\ objs' = MarkObjs(streams, objs)
          /\ shut_pc' = "marked"
          /\ UNCHANGED <<crashed, channels, streams>>
       \/ /\ ~shutdownReq /\ ShutdownS \in gone
          /\ crashed' = TRUE
          /\ RunDrop
          /\ UNCHANGED shut_pc
    /\ UNCHANGED <<shutdownReq, timedOut, replied, broken, gone, scn>>
    /\ UNCHANGED <<shutdown_barrier, sendVars, recvVars, chanVars, queueVars,
                   histVars>>

\* assert the channel table is not empty, then close_send_protocol for
\* every cid in it
ShutClose ==
    /\ ~crashed /\ shut_pc = "marked"
    /\ IF channels = {}
       THEN /\ crashed' = TRUE
            /\ RunDrop
            /\ UNCHANGED <<closeSendQ, shut_pc>>
       ELSE /\ \E q \in Orders(channels) :
                 closeSendQ' = IF send_pc = "done" THEN closeSendQ
                               ELSE closeSendQ \o q
            /\ shut_pc' = "wait1"
            /\ UNCHANGED <<crashed, tableVars>>
    /\ UNCHANGED <<shutdownReq, timedOut, replied, broken, gone, scn>>
    /\ UNCHANGED <<openQ, closeQ, msgQ, addSendQ, addRecvQ, forceQ, opened_out>>
    /\ UNCHANGED <<shutdown_barrier, sendVars, recvVars, chanVars,
                   histVars>>

\* the first wait_for_manager wins the select: no timeout
ShutWaited ==
    /\ ~crashed /\ shut_pc = "wait1" /\ BarrierOpen(shutdown_barrier)
    /\ shut_pc' = "wait2"
    /\ UNCHANGED <<shutdownReq, timedOut, replied>>
    /\ UNCHANGED <<tableVars, shutdown_barrier, sendVars, recvVars, chanVars,
                   queueVars, envVars, histVars>>

\* the timeout wins the select: force_close_recv_protocol for every cid
ShutTimeout ==
    /\ ~crashed /\ shut_pc = "wait1" /\ scn.timeout
    /\ \E q \in Orders(channels) :
         forceQ' = IF recv_pc = "done" THEN forceQ ELSE forceQ \o q
    /\ timedOut' = TRUE
    /\ shut_pc' = "wait2"
    /\ UNCHANGED <<shutdownReq, replied>>
    /\ UNCHANGED <<openQ, closeQ, msgQ, addSendQ, addRecvQ, closeSendQ,
                   opened_out>>
    /\ UNCHANGED <<tableVars, shutdown_barrier, sendVars, recvVars, chanVars,
                   envVars, histVars>>

\* the second wait_for_manager returns and `sender.send(Ok(())).unwrap()`
\* runs.  Ok(()) is sent: the coordinator is the last manager to return,
\* the join completes and run() returns.  Or the caller has dropped the
\* receiver of the reply: the unwrap panics and run() unwinds.
ShutReply ==
    /\ ~crashed /\ shut_pc = "wait2" /\ BarrierOpen(shutdown_barrier)
    /\ IF ShutdownReplyR \in gone
       THEN /\ crashed' = TRUE
            /\ UNCHANGED <<replied, shut_pc>>
       ELSE /\ replied' = TRUE
            /\ shut_pc' = "done"
            /\ UNCHANGED crashed
    /\ RunDrop
    /\ UNCHANGED <<shutdownReq, timedOut, broken, gone, scn>>
    /\ UNCHANGED <<shutdown_barrier, sendVars, recvVars, chanVars,
                   queueVars, histVars>>

\* a run() that does not wait for the shutdown coordinator
RunReturnedEarly ==
    /\ send_pc = "done" /\ recv_pc = "done" /\ chan_pc = "done"

\* run() returns when the four managers have returned
RunReturned ==
    /\ send_pc = "done" /\ recv_pc = "done"
    /\ chan_pc = "done" /\ shut_pc = "done"

\* ------------------------------------------------------------ specification

\* Every specification below runs the whole of run(): the four managers
\* that it joins, each with every step that the run's environment lets it
\* take.  What differs is the environment (the record in scn): the channels
\* the caller attaches, the stream calls it makes, whether it ends the
\* attach input and requests shutdown, what the peer sends, whether the
\* transport fails and whether the shutdown timeout elapses.

\* the caller's stream calls
StreamApi ==
    \/ ApiOpen
    \/ \E h \in 1..Len(objs) : ApiSend(h)
    \/ \E h \in 1..Len(objs) : \E d \in BOOLEAN : ApiClose(h, d)

\* a channel's receive task completes
PeerAny == \E c \in Cids : \E r \in PeerResults : PeerEvent(c, r)

\* the steps by which the Send Manager serves the stream calls
SendStreamNext ==
    \/ SendSelOpen
    \/ SendOpenCreate
    \/ SendSelClose
    \/ SendSelTick
    \/ SendSent
    \/ SendFlushed
    \/ SendCloseRemove
    \/ SendCloseMbox

\* the steps by which the Recv Manager handles OpenStream, CloseStream
\* and Message
RecvStreamNext ==
    \/ RecvEvent
    \/ RecvOpen
    \/ RecvMessage
    \/ RecvCloseRemove
    \/ RecvCloseMbox

\* Spec: the stream API over two channels, of which the active one may
\* fail, with streams opened and closed one after the other and one buffer
\* sent, by a caller that may give up waiting for the reply of an open
\* request or of an attach, or drop s2b_shutdown_bparticipant_s without a
\* request.  The peer is silent, the attach input stays
\* open and no shutdown is requested.
StreamScn ==
    [cids |-> Cids, opens |-> MaxOpens, msgs |-> 1,
     peer |-> 0, results |-> {}, fail |-> {ActiveCid},
     shutdown |-> FALSE, timeout |-> FALSE,
     cap |-> STREAM_BOUND, drop |-> {TRUE},
     gone |-> Receivers \ {OpenedOut}, room |-> NoStall, burst |-> 0]

Init == InitWith(StreamScn)

Next ==
    \/ \E c \in Cids : ApiAttach(c)
    \/ StreamApi
    \/ DropAny
    \/ ChannelFail(ActiveCid)
    \/ ChanTake
    \/ ChanAttachAny
    \/ SendFirst
    \/ SendSelAdd
    \/ SendStreamNext
    \/ RecvAdd
    \/ ShutMark

Spec == Init /\ [][Next]_vars

\* PeerSpec: one channel whose transport works, one local stream, and a
\* peer that opens, feeds and closes a stream whose sid is the one the
\* local side mints first; the caller may drop the receiver of
\* stream_opened_out, or s2b_shutdown_bparticipant_s without a request.
PeerStreamResults ==
    {[type |-> "OpenStream", sid |-> OffsetSid,
      data |-> <<9, "ORDERED", 1000000>>, shared |-> FALSE],
     [type |-> "CloseStream", sid |-> OffsetSid, data |-> 0, shared |-> FALSE],
     [type |-> "Message", sid |-> OffsetSid, data |-> 0, shared |-> FALSE]}

PeerScn ==
    [cids |-> {ActiveCid}, opens |-> 1, msgs |-> MaxMsgs,
     peer |-> MaxPeerEvents, results |-> PeerStreamResults, fail |-> {},
     shutdown |-> FALSE, timeout |-> FALSE,
     cap |-> STREAM_BOUND, drop |-> {TRUE},
     gone |-> {OpenedOut, ShutdownS}, room |-> NoStall, burst |-> 0]

PeerInit == InitWith(PeerScn)

PeerSpecNext ==
    \/ \E c \in Cids : ApiAttach(c)
    \/ StreamApi
    \/ DropAny
    \/ PeerAny
    \/ ChanTake
    \/ ChanAttachAny
    \/ SendFirst
    \/ SendStreamNext
    \/ RecvAdd
    \/ RecvStreamNext
    \/ ShutMark

PeerSpec == PeerInit /\ [][PeerSpecNext]_vars

\* ShutStreamSpec: one channel, one local stream, and the shutdown request.
\* The peer is silent and the timeout does not elapse: the coordinator
\* waits for the Recv Manager after the Send Manager has left its loop.
ShutStreamScn ==
    [cids |-> {ActiveCid}, opens |-> 1, msgs |-> MaxMsgs,
     peer |-> 0, results |-> {}, fail |-> {},
     shutdown |-> TRUE, timeout |-> FALSE,
     cap |-> STREAM_BOUND, drop |-> {TRUE},
     gone |-> {}, room |-> NoStall, burst |-> 0]

ShutStreamNext ==
    \/ \E c \in Cids : ApiAttach(c)
    \/ StreamApi
    \/ ApiShutdown
    \/ ChanTake
    \/ ChanAttachAny
    \/ SendFirst
    \/ SendStreamNext
    \/ SendSelRem
    \/ SendRemoved
    \/ RecvAdd
    \/ ShutMark
    \/ ShutClose

ShutStreamSpec == InitWith(ShutStreamScn) /\ [][ShutStreamNext]_vars

\* BarrierSpec: the four managers from attach to the return of run(), over
\* two channels, with a peer that may close a channel, fail it, send on an
\* unknown stream a buffer that it holds alone or that is shared, or stay
\* silent, a caller that may give up waiting for the reply of an attach
\* or of the shutdown request, or drop s2b_shutdown_bparticipant_s without
\* a request, and a timeout that may elapse.
TeardownResults ==
    {[type |-> "Shutdown", sid |-> NoSid, data |-> 0, shared |-> FALSE],
     [type |-> "Err", sid |-> NoSid, data |-> 0, shared |-> FALSE],
     [type |-> "Message", sid |-> OffsetSid, data |-> 0, shared |-> FALSE]}

BarrierScn ==
    [cids |-> Cids, opens |-> 0, msgs |-> 0,
     peer |-> MaxPeerEvents,
     results |-> TeardownResults
                 \cup {[type |-> "Message", sid |-> OffsetSid, data |-> 0,
                         shared |-> TRUE]},
     fail |-> {ActiveCid},
     shutdown |-> TRUE, timeout |-> TRUE,
     cap |-> STREAM_BOUND, drop |-> {TRUE},
     gone |-> {AckOf(c) : c \in Cids} \cup {ShutdownS, ShutdownReplyR},
     room |-> NoStall, burst |-> 0]

BarrierInit == InitWith(BarrierScn)

BarrierNext ==
    \/ \E c \in Cids : ApiAttach(c)
    \/ ApiCloseAttach
    \/ DropAny
    \/ PeerAny
    \/ ApiShutdown
    \/ ChannelFail(ActiveCid)
    \/ ChanTake
    \/ ChanAttachAny
    \/ ChanExit
    \/ SendFirst
    \/ SendSelAdd
    \/ SendSelTick
    \/ SendSelRem
    \/ SendFlushed
    \/ SendRemoved
    \/ RecvAdd
    \/ RecvForce
    \/ RecvEvent
    \/ RecvMessage
    \/ RecvShutdown
    \/ ShutMark
    \/ ShutClose
    \/ ShutWaited
    \/ ShutTimeout
    \/ ShutReply

BarrierSpec == BarrierInit /\ [][BarrierNext]_vars

\* LiveShutSpec: BarrierSpec's run without transport failures and with one
\* peer result, every manager step fair.  The four managers are joined on
\* one task that polls each of them whenever it is woken, so a step that
\* stays possible is taken (weak fairness); a transport that is not failed
\* ends an awaited send or flush.  The Send Manager is at its select! once
\* in every iteration, the interval tick among its branches, and the select!
\* picks among the branches that are ready: a request that is queued every
\* time the manager is at the select! is taken (strong fairness).
LiveShutScn ==
    [cids |-> Cids, opens |-> 0, msgs |-> 0,
     peer |-> 1, results |-> TeardownResults, fail |-> {},
     shutdown |-> TRUE, timeout |-> TRUE,
     cap |-> STREAM_BOUND, drop |-> {TRUE},
     gone |-> {}, room |-> NoStall, burst |-> 0]

LiveShutInit == InitWith(LiveShutScn)

LiveShutNext ==
    \/ \E c \in Cids : ApiAttach(c)
    \/ ApiCloseAttach
    \/ PeerAny
    \/ ApiShutdown
    \/ ChanTake
    \/ ChanAttachAny
    \/ ChanExit
    \/ SendFirst
    \/ SendSelAdd
    \/ SendSelTick
    \/ SendSelRem
    \/ SendFlushed
    \/ SendRemoved
    \/ RecvAdd
    \/ RecvForce
    \/ RecvEvent
    \/ RecvMessage
    \/ RecvShutdown
    \/ ShutMark
    \/ ShutClose
    \/ ShutWaited
    \/ ShutTimeout
    \/ ShutReply

LiveShutFairness ==
    /\ WF_vars(ChanTake) /\ WF_vars(ChanAttachAny) /\ WF_vars(ChanExit)
    /\ WF_vars(SendFirst) /\ SF_vars(SendSelAdd) /\ SF_vars(SendSelRem)
    /\ WF_vars(SendSelTick)
    /\ WF_vars(RecvAdd) /\ WF_vars(RecvForce) /\ WF_vars(RecvEvent)
    /\ WF_vars(RecvMessage) /\ WF_vars(RecvShutdown)
    /\ WF_vars(ShutMark) /\ WF_vars(ShutClose) /\ WF_vars(ShutWaited)
    /\ WF_vars(ShutReply)
    /\ WF_vars(SendFlushed)
    /\ WF_vars(SendRemoved)

LiveShutSpec ==
    LiveShutInit /\ [][LiveShutNext]_vars /\ LiveShutFairness

\* LiveSendSpec: two channels, of which the active one may fail, and one
\* local stream, with a caller that may drop any of its receivers, or
\* s2b_shutdown_bparticipant_s without a request; every step of the Send,
\* Recv and Attach managers fair, as in LiveShutSpec.
LiveSendScn ==
    [cids |-> Cids, opens |-> 1, msgs |-> MaxMsgs,
     peer |-> 0, results |-> {}, fail |-> {ActiveCid},
     shutdown |-> FALSE, timeout |-> FALSE,
     cap |-> STREAM_BOUND, drop |-> {TRUE},
     gone |-> Receivers, room |-> NoStall, burst |-> 0]

LiveSendInit == InitWith(LiveSendScn)

LiveSendNext ==
    \/ \E c \in Cids : ApiAttach(c)
    \/ DropAny
    \/ StreamApi
    \/ ChannelFail(ActiveCid)
    \/ ChanTake
    \/ ChanAttachAny
    \/ SendFirst
    \/ SendSelAdd
    \/ SendStreamNext
    \/ RecvAdd
    \/ ShutMark

LiveSendFairness ==
    /\ WF_vars(ChanTake) /\ WF_vars(ChanAttachAny) /\ WF_vars(RecvAdd)
    /\ WF_vars(SendFirst) /\ SF_vars(SendSelAdd) /\ WF_vars(SendSelTick)
    /\ SF_vars(SendSelOpen) /\ WF_vars(SendOpenCreate) /\ SF_vars(SendSelClose)
    /\ WF_vars(SendCloseRemove) /\ WF_vars(SendCloseMbox)
    /\ WF_vars(SendSent)
    /\ WF_vars(SendFlushed)

LiveSendSpec ==
    LiveSendInit /\ [][LiveSendNext]_vars /\ LiveSendFairness

\* AwaitSendSpec: LiveSendSpec with a caller that awaits every reply it has
\* asked for, so that no send of run() finds its receiver dropped.
AwaitSendNext ==
    \/ \E c \in Cids : ApiAttach(c)
    \/ StreamApi
    \/ ChannelFail(ActiveCid)
    \/ ChanTake
    \/ ChanAttachAny
    \/ SendFirst
    \/ SendSelAdd
    \/ SendStreamNext
    \/ RecvAdd

AwaitSendSpec ==
    /\ InitWith([LiveSendScn EXCEPT !.gone = {}])
    /\ [][AwaitSendNext]_vars /\ LiveSendFairness

\* CleanShutSpec: one channel and a peer whose end yields Shutdown or an
\* error; the timeout may elapse and the caller, having sent the shutdown
\* request, awaits its reply (tests::close_bparticipant_cleanly).  Every
\* manager step is fair, as in LiveShutSpec, and so is the closing of the
\* peer's end.
CloseResults ==
    {[type |-> "Shutdown", sid |-> NoSid, data |-> 0, shared |-> FALSE],
     [type |-> "Err", sid |-> NoSid, data |-> 0, shared |-> FALSE]}

CleanShutScn ==
    [cids |-> {ActiveCid}, opens |-> 0, msgs |-> 0,
     peer |-> MaxPeerEvents, results |-> CloseResults, fail |-> {ActiveCid},
     shutdown |-> TRUE, timeout |-> TRUE,
     cap |-> STREAM_BOUND, drop |-> {TRUE},
     gone |-> {}, room |-> NoStall, burst |-> 0]

CleanShutInit == InitWith(CleanShutScn)

\* the peer's end of the active channel yields a result
PeerCloses == \E r \in PeerResults : PeerEvent(ActiveCid, r)

CleanShutNext ==
    \/ \E c \in Cids : ApiAttach(c)
    \/ ApiCloseAttach
    \/ PeerCloses
    \/ ChannelFail(ActiveCid)
    \/ ApiShutdown
    \/ ChanTake
    \/ ChanAttachAny
    \/ ChanExit
    \/ SendFirst
    \/ SendSelTick
    \/ SendSelRem
    \/ SendFlushed
    \/ SendRemoved
    \/ RecvAdd
    \/ RecvForce
    \/ RecvShutdown
    \/ ShutMark
    \/ ShutClose
    \/ ShutWaited
    \/ ShutTimeout
    \/ ShutReply

CleanShutFairness ==
    /\ WF_vars(ChanTake) /\ WF_vars(ChanAttachAny) /\ WF_vars(ChanExit)
    /\ WF_vars(SendFirst) /\ SF_vars(SendSelRem) /\ WF_vars(SendSelTick)
    /\ WF_vars(RecvAdd) /\ WF_vars(RecvForce) /\ WF_vars(RecvShutdown)
    /\ WF_vars(ShutMark) /\ WF_vars(ShutClose) /\ WF_vars(ShutWaited)
    /\ WF_vars(ShutReply)
    /\ WF_vars(PeerCloses)
    /\ WF_vars(SendFlushed)
    /\ WF_vars(SendRemoved)

CleanShutSpec ==
    CleanShutInit /\ [][CleanShutNext]_vars /\ CleanShutFairness

\* LiveTimeoutSpec: two channels and a peer that sends Messages for an
\* unknown stream but never closes its end nor sends Shutdown, so that only
\* the timeout ends the Recv Manager.  Every manager step is fair, as in
\* LiveShutSpec.
SilentResults == {[type |-> "Message", sid |-> OffsetSid, data |-> 0, shared |-> FALSE]}

LiveTimeoutScn ==
    [cids |-> Cids, opens |-> 0, msgs |-> 0,
     peer |-> MaxPeerEvents, results |-> SilentResults, fail |-> {},
     shutdown |-> TRUE, timeout |-> TRUE,
     cap |-> STREAM_BOUND, drop |-> {TRUE},
     gone |-> {}, room |-> NoStall, burst |-> 0]

LiveTimeoutInit == InitWith(LiveTimeoutScn)

LiveTimeoutNext ==
    \/ \E c \in Cids : ApiAttach(c)
    \/ ApiCloseAttach
    \/ PeerAny
    \/ ApiShutdown
    \/ ChanTake
    \/ ChanAttachAny
    \/ ChanExit
    \/ SendFirst
    \/ SendSelAdd
    \/ SendSelTick
    \/ SendSelRem
    \/ SendFlushed
    \/ SendRemoved
    \/ RecvAdd
    \/ RecvForce
    \/ RecvEvent
    \/ RecvMessage
    \/ ShutMark
    \/ ShutClose
    \/ ShutTimeout
    \/ ShutReply

LiveTimeoutFairness ==
    /\ WF_vars(ChanTake) /\ WF_vars(ChanAttachAny) /\ WF_vars(ChanExit)
    /\ WF_vars(SendFirst) /\ SF_vars(SendSelAdd) /\ SF_vars(SendSelRem)
    /\ WF_vars(SendSelTick)
    /\ WF_vars(RecvAdd) /\ WF_vars(RecvForce) /\ WF_vars(RecvEvent)
    /\ WF_vars(RecvMessage)
    /\ WF_vars(ShutMark) /\ WF_vars(ShutClose) /\ WF_vars(ShutReply)
    /\ WF_vars(SendFlushed)
    /\ WF_vars(SendRemoved)

LiveTimeoutSpec ==
    LiveTimeoutInit /\ [][LiveTimeoutNext]_vars /\ LiveTimeoutFairness

\* BackSpec: one stream whose caller sends more buffers than the send queue
\* holds, a burst first and then one at a time, over a transport whose
\* peer stops reading after the OpenStream: the send of the first Message
\* stays pending and the send queue fills up.
BackScn ==
    [cids |-> {ActiveCid}, opens |-> 2, msgs |-> STREAM_BOUND + MaxMsgs,
     peer |-> 0, results |-> {}, fail |-> {},
     shutdown |-> FALSE, timeout |-> FALSE,
     cap |-> STREAM_BOUND, drop |-> {},
     gone |-> {}, room |-> 1, burst |-> STREAM_BOUND - MaxMsgs]

BackInit == InitWith(BackScn)

BackNext ==
    \/ \E c \in Cids : ApiAttach(c)
    \/ ApiOpen
    \/ \E h \in 1..Len(objs) : ApiSendBurst(h)
    \/ \E h \in 1..Len(objs) : ApiSend(h)
    \/ ChanTake
    \/ ChanAttachAny
    \/ SendFirst
    \/ SendSelOpen
    \/ SendOpenCreate
    \/ SendSelTick
    \/ SendSent
    \/ SendFlushed
    \/ RecvAdd

BackSpec == BackInit /\ [][BackNext]_vars

\* CloseSpec: two channels carrying one stream, closed from both sides: the
\* peer may close or fail either channel (the Recv Manager then asks for
\* the send half to be closed) and the caller may request shutdown (the
\* coordinator then asks for every send half to be closed).  The caller
\* may drop any of its receivers, that of the shutdown reply included, or
\* s2b_shutdown_bparticipant_s without a request; the attach input stays
\* open and the timeout does not elapse.
CloseScn ==
    [cids |-> Cids, opens |-> 1, msgs |-> 1,
     peer |-> MaxPeerEvents, results |-> CloseResults, fail |-> {ActiveCid},
     shutdown |-> TRUE, timeout |-> FALSE,
     cap |-> STREAM_BOUND, drop |-> {TRUE},
     gone |-> Receivers, room |-> NoStall, burst |-> 0]

CloseInit == InitWith(CloseScn)

CloseNext ==
    \/ \E c \in Cids : ApiAttach(c)
    \/ DropAny
    \/ StreamApi
    \/ PeerAny
    \/ ChannelFail(ActiveCid)
    \/ ApiShutdown
    \/ ChanTake
    \/ ChanAttachAny
    \/ SendFirst
    \/ SendSelAdd
    \/ SendStreamNext
    \/ SendSelRem
    \/ SendRemoved
    \/ RecvAdd
    \/ RecvShutdown
    \/ ShutMark
    \/ ShutClose

CloseSpec == CloseInit /\ [][CloseNext]_vars

\* OrderSpec: two channels and one stream with a silent peer; the caller
\* may drop any of its receivers, requests shutdown or drops
\* s2b_shutdown_bparticipant_s without a request, and the timeout ends the
\* Recv Manager.
OrderScn ==
    [cids |-> Cids, opens |-> 1, msgs |-> 1,
     peer |-> 0, results |-> {}, fail |-> {},
     shutdown |-> TRUE, timeout |-> TRUE,
     cap |-> STREAM_BOUND, drop |-> {TRUE},
     gone |-> Receivers, room |-> NoStall, burst |-> 0]

OrderInit == InitWith(OrderScn)

OrderNext ==
    \/ \E c \in Cids : ApiAttach(c)
    \/ DropAny
    \/ ApiCloseAttach
    \/ StreamApi
    \/ ApiShutdown
    \/ ChanTake
    \/ ChanAttachAny
    \/ ChanExit
    \/ SendFirst
    \/ SendSelAdd
    \/ SendStreamNext
    \/ SendSelRem
    \/ SendRemoved
    \/ RecvAdd
    \/ RecvForce
    \/ ShutMark
    \/ ShutClose
    \/ ShutTimeout
    \/ ShutReply

OrderSpec == OrderInit /\ [][OrderNext]_vars

\* ReciprocalSpec: two channels that only the peer closes (Shutdown or a
\* receive error), no local shutdown request, over transports that do not
\* fail.  Every manager step is fair, as in LiveShutSpec.
ReciprocalScn ==
    [cids |-> Cids, opens |-> 0, msgs |-> 0,
     peer |-> MaxPeerEvents, results |-> CloseResults, fail |-> {},
     shutdown |-> FALSE, timeout |-> FALSE,
     cap |-> STREAM_BOUND, drop |-> {TRUE},
     gone |-> {}, room |-> NoStall, burst |-> 0]

ReciprocalInit == InitWith(ReciprocalScn)

ReciprocalNext ==
    \/ \E c \in Cids : ApiAttach(c)
    \/ ApiCloseAttach
    \/ PeerAny
    \/ ChanTake
    \/ ChanAttachAny
    \/ ChanExit
    \/ SendFirst
    \/ SendSelAdd
    \/ SendSelTick
    \/ SendSelRem
    \/ SendFlushed
    \/ SendRemoved
    \/ RecvAdd
    \/ RecvShutdown

ReciprocalFairness ==
    /\ WF_vars(ChanTake) /\ WF_vars(ChanAttachAny) /\ WF_vars(ChanExit)
    /\ WF_vars(SendFirst) /\ SF_vars(SendSelAdd) /\ SF_vars(SendSelRem)
    /\ WF_vars(SendSelTick)
    /\ WF_vars(RecvAdd) /\ WF_vars(RecvShutdown)
    /\ WF_vars(SendFlushed)
    /\ WF_vars(SendRemoved)

ReciprocalSpec ==
    ReciprocalInit /\ [][ReciprocalNext]_vars /\ ReciprocalFairness

\* LockSpec: one channel and one local stream that the caller closes,
\* dropping the handle or keeping its receiver, while the peer opens,
\* closes and sends on the same sid; the caller may drop any of its other
\* receivers as well, or s2b_shutdown_bparticipant_s without a request.
LockScn ==
    [cids |-> {ActiveCid}, opens |-> 1, msgs |-> 0,
     peer |-> MaxPeerEvents, results |-> PeerStreamResults, fail |-> {},
     shutdown |-> FALSE, timeout |-> FALSE,
     cap |-> STREAM_BOUND, drop |-> BOOLEAN,
     gone |-> Receivers, room |-> NoStall, burst |-> 0]

LockInit == InitWith(LockScn)

LockNext ==
    \/ \E c \in Cids : ApiAttach(c)
    \/ DropAny
    \/ ApiOpen
    \/ \E h \in 1..Len(objs) : \E d \in BOOLEAN : ApiClose(h, d)
    \/ PeerAny
    \/ ChanTake
    \/ ChanAttachAny
    \/ SendFirst
    \/ SendStreamNext
    \/ RecvAdd
    \/ RecvStreamNext
    \/ ShutMark

LockSpec == LockInit /\ [][LockNext]_vars

\* SimCloseSpec: one channel over which the caller opens streams and closes
\* them in any order, while the peer closes the first of them as well: the
\* peer's CloseStream can be handled before, between and after the two
\* parts of the Send Manager's delete_stream, and the caller's close
\* request before, between and after those of the Recv Manager's.  The
\* transport may fail and the caller may give up waiting for the reply of
\* an open request, or drop s2b_shutdown_bparticipant_s without a request.
PeerCloseResults == {[type |-> "CloseStream", sid |-> OffsetSid, data |-> 0, shared |-> FALSE]}

SimCloseScn ==
    [cids |-> {ActiveCid}, opens |-> MaxOpens, msgs |-> 0,
     peer |-> 1, results |-> PeerCloseResults, fail |-> {ActiveCid},
     shutdown |-> FALSE, timeout |-> FALSE,
     cap |-> STREAM_BOUND, drop |-> {TRUE},
     gone |-> {ReplyOf(k) : k \in 1..MaxOpens} \cup {ShutdownS},
     room |-> NoStall,
     burst |-> 0]

SimCloseInit == InitWith(SimCloseScn)

SimCloseNext ==
    \/ \E c \in Cids : ApiAttach(c)
    \/ ApiOpen
    \/ DropAny
    \/ ChannelFail(ActiveCid)
    \/ \E h \in 1..Len(objs) : \E d \in BOOLEAN : ApiClose(h, d)
    \/ PeerAny
    \/ ChanTake
    \/ ChanAttachAny
    \/ SendFirst
    \/ SendStreamNext
    \/ RecvAdd
    \/ RecvEvent
    \/ RecvCloseRemove
    \/ RecvCloseMbox
    \/ ShutMark

SimCloseSpec == SimCloseInit /\ [][SimCloseNext]_vars

\* ReattachSpec: the caller attaches cid 0 and later attaches cid 0 again
\* with the halves of another transport, while the peer sends messages on
\* both.
ReattachResults == {r \in PeerResults : r.type = "Message" /\ ~r.shared}

ReattachScn ==
    [cids |-> {ActiveCid}, opens |-> 0, msgs |-> 0,
     peer |-> MaxPeerEvents, results |-> ReattachResults, fail |-> {},
     shutdown |-> FALSE, timeout |-> FALSE,
     cap |-> STREAM_BOUND, drop |-> {TRUE},
     gone |-> {}, room |-> NoStall, burst |-> 0]

ReattachNext ==
    \/ \E c \in Cids : ApiAttach(c)
    \/ \E c \in Cids : ApiReattach(c)
    \/ PeerAny
    \/ \E c \in Cids : \E r \in PeerResults : PeerEventOrphan(c, r)
    \/ ChanTake
    \/ ChanAttachAny
    \/ SendFirst
    \/ SendSelAdd
    \/ SendSelTick
    \/ SendFlushed
    \/ RecvAdd
    \/ RecvEvent
    \/ RecvMessage

ReattachSpec == InitWith(ReattachScn) /\ [][ReattachNext]_vars

\* ------------------------------------------------------------ claims: streams

\* the open requests whose stream was registered and whose handle was
\* returned, in the order served
Served == SelectSeq(openLog, LAMBDA e : e.handle)

\* the indices of the wire events of one type
WireIdx(type) == {i \in 1..Len(wire) : wire[i].type = type}

\* the OpenStream events of the wire, in order
WireOpens == SelectSeq(wire, LAMBDA e : e.type = "OpenStream")

\* the served open requests whose OpenStream was emitted, in order
ServedEmitted == SelectSeq(Served, LAMBDA e : e.emitted)

\* the Send Manager awaits the send of an OpenStream
OpenInFlight == send_pc = "send" /\ pending.type = "OpenStream"

\* the open requests taken whose iteration is past its OpenStream
OpenSettled ==
    IF OpenInFlight THEN SubSeq(openLog, 1, Len(openLog) - 1) ELSE openLog

\* C4 (as claimed): every open request the Send Manager takes ends with a
\* handle delivered and an OpenStream emitted, or fails because shutdown
\* began.
C4_NoLostOpens ==
    \A i \in 1..Len(OpenSettled) :
        \/ OpenSettled[i].handle /\ OpenSettled[i].emitted
        \/ /\ ~OpenSettled[i].handle /\ ~OpenSettled[i].emitted
           /\ OpenSettled[i].shutdown

\* C5 (as claimed): for every sid the events the Send Manager emits with it
\* are a prefix of OpenStream, Message*, CloseStream.
C5_OrderedOpenClose ==
    \A j \in 1..Len(wire) :
        wire[j].sid # NoSid =>
            \* an OpenStream is the first event of its sid, anything else
            \* has an OpenStream before it
            /\ (wire[j].type = "OpenStream") =
                   (\A i \in 1..(j - 1) : wire[i].sid # wire[j].sid)
            \* nothing follows a CloseStream
            /\ \A i \in 1..(j - 1) :
                   wire[i].sid = wire[j].sid => wire[i].type # "CloseStream"

\* C7: when the CloseStream of a local close request is on the wire, every
\* buffer pushed before that request was submitted has left the send queue,
\* and none of them is emitted after the CloseStream.
C7_CloseAfterQueued ==
    \A j \in WireIdx("CloseStream") :
        /\ \A k \in 1..Len(msgQ) : msgQ[k].buf > wire[j].stamp
        /\ \A i \in (j + 1)..Len(wire) :
               wire[i].type = "Message" => wire[i].data > wire[j].stamp

\* C7 witness: a CloseStream on the wire after the Messages of two buffers
\* that were queued before its request.
C7_Witness ==
    \E j \in WireIdx("CloseStream") :
        /\ wire[j].stamp >= 2
        /\ \A b \in 1..2 : \E i \in 1..(j - 1) :
               wire[i].type = "Message" /\ wire[i].data = b

\* the step in which the Send Manager takes an open request from its queue
TakesOpen == send_pc = "select" /\ openQ # << >> /\ openQ' = Tail(openQ)

\* the step in which create_stream, awaited for an open request, completes
CreatesStream == send_pc = "open" /\ Len(openLog') > Len(openLog)

\* C10: the k-th open request served gets sid offset_sid + k: the counter
\* advances by one, in the step that takes the request it serves and in no
\* other, and the request gets the value it had; the step that completes
\* create_stream makes a StreamInfo with that sid, the request's parameters
\* and send_closed = false, registers it and leaves the manager awaiting
\* the send of the OpenStream with that sid and those parameters on the
\* active channel (or panics on the reply, the StreamInfo made); and the
\* OpenStream events on the wire are, in order, those of the served
\* requests whose emit succeeded.
C10_LocalOpen ==
    /\ [](\A k \in 1..Len(Served) :
            /\ Served[k].sid = OffsetSid + (k - 1)
            /\ \E h \in 1..Len(objs) :
                  /\ objs[h].origin = "local"
                  /\ objs[h].sid = Served[k].sid
                  /\ objs[h].params = Served[k].params)
    /\ [](stream_ids = OffsetSid + Len(Served)
                          + IF send_pc = "open" THEN 1 ELSE 0)
    /\ [][stream_ids' # stream_ids =>
            /\ TakesOpen /\ send_pc' = "open"
            /\ stream_ids' = stream_ids + 1
            /\ cur_open'.sid = stream_ids
            /\ cur_open'.params = Head(openQ)]_vars
    /\ [][CreatesStream =>
            LET h == Len(objs) + 1
                e == openLog'[Len(openLog')]
            IN /\ e.sid = cur_open.sid /\ e.params = cur_open.params
               /\ Len(objs') = h
               /\ objs'[h].sid = cur_open.sid
               /\ objs'[h].params = cur_open.params
               /\ objs'[h].origin = "local"
               /\ ~objs'[h].send_closed
               /\ e.handle = ~crashed'
               /\ e.handle =>
                     /\ streams'[cur_open.sid] = h
                     /\ send_pc' = "send"
                     /\ pending' = OpenStreamEv(ActiveCid, cur_open.sid,
                                                cur_open.params)]_vars
    /\ [](/\ Len(WireOpens) = Len(ServedEmitted)
          /\ \A i \in 1..Len(WireOpens) :
                /\ WireOpens[i].cid = ActiveCid
                /\ WireOpens[i].sid = ServedEmitted[i].sid
                /\ WireOpens[i].data = ServedEmitted[i].params)

\* C10 witness: two requests with different parameters served, the first
\* stream deleted before the second was opened, both OpenStreams emitted.
C10_Witness ==
    /\ Len(WireOpens) = 2 /\ ~crashed
    /\ WireOpens[1].data # WireOpens[2].data
    /\ \E i \in WireIdx("CloseStream"), j \in WireIdx("OpenStream") :
          i < j /\ wire[i].sid = OffsetSid /\ wire[j].sid = OffsetSid + 1

\* ------------------------------------------------------------ claims: shutdown

\* C1 (as claimed): when the attach input was closed and a channel attached
\* before the shutdown request, then once the timeout has fired and the
\* force-close requests are out, the barrier reaches zero and the caller
\* gets Ok(()).
C1_ShutdownCompletes ==
    (timedOut /\ attachClosedAtShutdown)
        ~> (shutdown_barrier = 0 /\ replied)

\* C2: in every state in which Ok(()) has been sent, the barrier is zero
\* and the Send, Recv and Channel Attach Managers have exited.
C2_ReplyAtZero ==
    replied =>
        /\ shutdown_barrier = 0
        /\ send_pc = "done" /\ recv_pc = "done" /\ chan_pc = "done"

\* C2 witness: Ok(()) sent on the timeout path.
C2_Witness == replied /\ timedOut

\* the sum of the constants of the managers that have not exited
BarrierDue ==
    (IF chan_pc = "done" THEN 0 ELSE BARR_CHANNEL)
    + (IF send_pc = "done" THEN 0 ELSE BARR_SEND)
    + (IF recv_pc = "done" THEN 0 ELSE BARR_RECV)

\* C3: the barrier starts at 7, equals in every state the sum of the
\* constants of the managers still running, is never negative, never
\* increases, and is zero when run() has returned.
C3_Barrier ==
    /\ shutdown_barrier = BARR_CHANNEL + BARR_SEND + BARR_RECV
    /\ [](/\ shutdown_barrier = BarrierDue
          /\ shutdown_barrier >= 0
          /\ (RunReturned => shutdown_barrier = 0))
    /\ [][shutdown_barrier' <= shutdown_barrier]_vars

\* C3 witness: run() has returned after each manager subtracted its constant.
C3_Witness == RunReturned /\ shutdown_barrier = 0 /\ Len(sendExits) = 1

\* C6 (as claimed): no Message is emitted for a sid whose stream has
\* send_closed set.
C6_NoMessageAfterClosed ==
    [][\A i \in (Len(wire) + 1)..Len(wire') :
          wire'[i].type = "Message" =>
              \A h \in 1..Len(objs) :
                  objs[h].sid = wire'[i].sid => ~objs[h].send_closed]_vars

\* C8: the Messages on the wire carry the buffers in the order they were
\* queued, each at most once and with the sid it was queued with; and a
\* queued buffer is eventually emitted unless the active channel fails or
\* leaves the send table.
C8_MessagesInOrder ==
    /\ [](\A j \in WireIdx("Message") :
            /\ wire[j].cid = ActiveCid
            /\ wire[j].data \in 1..Len(pushed)
            /\ wire[j].sid = pushed[wire[j].data]
            /\ \A i \in WireIdx("Message") :
                  i < j => wire[i].data < wire[j].data)
    /\ \A b \in 1..MaxMsgs :
          (\E k \in 1..Len(msgQ) : msgQ[k].buf = b)
              ~> \/ \E j \in WireIdx("Message") : wire[j].data = b
                 \/ ActiveCid \in broken
                 \/ ActiveCid \notin send_protocols

\* C8 witness: two buffers, queued together, emitted in one drain.
C8_Witness ==
    /\ msgQ = << >>
    /\ \E j \in WireIdx("Message") :
          /\ wire[j].data = 1
          /\ j < Len(wire) /\ wire[j + 1].type = "Message"
          /\ wire[j + 1].data = 2
    /\ openLog # << >> /\ Len(closeLog) = 0

\* C9 (as claimed): an entry of the stream table is never overwritten: it
\* changes only from absent to present or from present to absent.
C9_NoOverwrite ==
    [][\A s \in SidSet :
          streams'[s] # streams[s] => streams[s] = 0 \/ streams'[s] = 0]_vars

\* ------------------------------------------------------------ claims: recv_mgr

\* the step in which the Recv Manager, having taken an event of the given
\* type from the funnel, handles it up to its next await
RecvHandles(type) ==
    /\ recv_pc = "event" /\ recv_cur.type = type
    \* it goes on, or it panics: the panic of an attach or of an open
    \* changes the attaches under way, the open log or the funnel, and the
    \* coordinator panics only where the caller has dropped
    \* s2b_shutdown_bparticipant_s
    /\ \/ recv_pc' # "event"
       \/ /\ crashed' /\ UNCHANGED <<attaching, openLog, funnel>>
          /\ ~(shut_pc = "wait" /\ ShutdownS \in gone)

\* C11 (as claimed): the Recv Manager takes every OpenStream{sid, prio,
\* promises, bw} from the funnel, and the step that handles it creates one
\* StreamInfo
\* with that sid and those parameters and send_closed = false, makes it the
\* table's entry of sid, publishes exactly that one handle on
\* stream_opened_out, and re-arms the channel the event came on.
C11_RemoteOpen ==
    [][RecvHandles("OpenStream") =>
          LET e == recv_cur
              h == Len(objs) + 1
          IN /\ Len(objs') = h
             /\ objs'[h].sid = e.sid
             /\ objs'[h].params = e.data
             /\ ~objs'[h].send_closed
             /\ objs'[h].origin = "remote"
             /\ streams'[e.sid] = h
             /\ opened_out' = Append(opened_out, h)
             /\ e.cid \in recv_protocols'
             /\ e.cid \in armed']_vars

\* ------------------------------------------------------------ claims: teardown

\* C12: with one channel attached and the attach input closed, once shutdown
\* is requested and the peer's end yields Shutdown or an error, Ok(()) is
\* replied unless the timeout fires first; a reply without timeout comes
\* with all three managers exited and the barrier at zero, and no
\* force_close_recv_protocol is requested before the timeout.
C12_CleanShutdown ==
    /\ [](~timedOut => forceQ = << >>)
    /\ []((replied /\ ~timedOut) =>
             /\ shutdown_barrier = 0
             /\ send_pc = "done" /\ recv_pc = "done" /\ chan_pc = "done")
    /\ (shutdownReq /\ ~attachOpen /\ attachQ = << >> /\ channels # {}
           /\ ~crashed)
          ~> (replied \/ timedOut)

\* C12 witness: Ok(()) replied without timeout after the local Shutdown went
\* out and the peer's end answered.
C12_Witness ==
    /\ replied /\ ~timedOut
    /\ peerCount > 0
    /\ \E i \in 1..Len(wire) : wire[i].type = "Shutdown"

\* the cids a queue of requests names
Named(q) == {q[i] : i \in 1..Len(q)}

\* C13 (as claimed): with a peer that neither closes its end nor sends
\* Shutdown, the Recv Manager exits only after the timeout, no reply is sent
\* before the timeout, the timeout requests force_close_recv_protocol once
\* for every cid of the channel table, and the reply Ok(()) follows.
C13_TimeoutShutdown ==
    /\ [](recv_pc = "done" => timedOut)
    /\ [](replied => timedOut)
    /\ [][(~timedOut /\ timedOut') =>
             /\ Named(forceQ') = channels
             /\ Len(forceQ') = Cardinality(channels)]_vars
    /\ (timedOut /\ attachClosedAtShutdown) ~> replied

\* ------------------------------------------------------------ claims: channels

\* the step ends with the Send Manager serving the open request on the
\* send half of channel c: it creates the stream, whose OpenStream it then
\* sends on that half
AwaitsOpenOn(c) == send_pc' = "open" /\ cur_open'.cid = c

\* the other attached channel
SecondCid == CHOOSE c \in Cids : c # ActiveCid

\* C14 (as claimed): with channels 0 and 1 attached, once channel 0 has
\* failed and the Send Manager has dropped its send half, an open request is
\* still served: the step that takes it hands its OpenStream to channel 1.
C14_ServedOnSecond ==
    [][(/\ TakesOpen
        /\ ActiveCid \in channels /\ ActiveCid \in broken
        /\ ActiveCid \notin send_protocols /\ addSendQ = << >>
        /\ SecondCid \in send_protocols /\ SecondCid \notin broken)
       => AwaitsOpenOn(SecondCid)]_vars

\* the smallest cid of a non-empty table
MinCid(tbl) == CHOOSE c \in tbl : \A d \in tbl : c <= d

\* C15 (as claimed): an iteration that takes an open request while the send
\* table is not empty uses the half with the smallest cid: the OpenStream is
\* handed to it.
C15_SmallestCid ==
    [][(/\ TakesOpen
        /\ send_protocols # {})
       => AwaitsOpenOn(MinCid(send_protocols))]_vars

\* ------------------------------------------------------------ claims: send queue

\* C16: the send queue never holds more than STREAM_BOUND tuples; tuples
\* enter only while there is room for them, only at the back and one per
\* accepted buffer, and while the queue is full no buffer is accepted;
\* every other change of the queue is
\* the Send Manager taking the tuple at its front to send it as a Message,
\* so that a full queue keeps its tuples until the Send Manager drains and
\* nothing is dropped or overwritten to make room.
C16_Backpressure ==
    /\ [](Len(msgQ) <= STREAM_BOUND)
    /\ [][Len(msgQ) = STREAM_BOUND => msgCount' = msgCount]_vars
    /\ [][msgQ' # msgQ =>
            \/ /\ Len(msgQ) < STREAM_BOUND
               /\ Len(msgQ') > Len(msgQ)
               /\ Len(msgQ') - Len(msgQ) = msgCount' - msgCount
               /\ SubSeq(msgQ', 1, Len(msgQ)) = msgQ
               /\ UNCHANGED <<send_pc, pending, wire, lost>>
            \/ /\ msgQ # << >> /\ msgQ' = Tail(msgQ)
               /\ send_pc \in {"select", "send", "rem"}
               /\ send_pc' = "send"
               /\ pending' = MessageEv(ActiveCid, Head(msgQ))]_vars

\* the channel is stalled with the first Message in the Send Manager's
\* hands; the queue, full before the manager took that tuple, is full again
\* with the one buffer that was accepted since, and the sender of the next
\* buffer is waiting on the open stream
C16_Witness ==
    /\ Len(msgQ) = STREAM_BOUND /\ msgCount = STREAM_BOUND + 1
    /\ msgCount < scn.msgs
    /\ send_pc = "send" /\ pending.type = "Message" /\ pending.data = 1
    /\ Stalled(wire, scn.room)
    /\ \E h \in 1..Len(objs) : ~objs[h].send_closed /\ ~objs[h].api_closed

\* ------------------------------------------------------------ claims: force close

\* the Recv Manager has processed force_close_recv_protocol(c): the request
\* was queued by the timeout and is no longer in the queue
ForceClosed(c) ==
    /\ timedOut /\ attachClosedAtShutdown /\ recv_pc # "done"
    /\ c \in channels /\ c \notin Named(forceQ)

\* C17 (as claimed): a cid whose force_close_recv_protocol was processed is
\* not in the recv table again, and no event of its channel is dispatched.
C17_ForceClosedStays ==
    /\ [](\A c \in Cids : ForceClosed(c) => c \notin recv_protocols)
    /\ [][\A c \in Cids :
            (ForceClosed(c) /\ funnel # << >> /\ Head(funnel).cid = c)
            => ~(funnel' = Tail(funnel) /\ recv_pc' # "done")]_vars

\* ------------------------------------------------------------ claims: channel close

\* the step in which the Send Manager takes a close_send_protocol request
TakesRem ==
    /\ send_pc = "select" /\ closeSendQ # << >>
    /\ closeSendQ' = Tail(closeSendQ) \/ send_pc' = "done"

\* C18: a close_send_protocol(cid) removes the half of cid.  If the half was
\* registered the step that takes the request emits nothing and leaves the
\* manager awaiting the send of Shutdown on the removed half, and when that
\* send returns Shutdown is the one event appended to the wire (none if the
\* transport has failed); if no half was registered nothing is sent for
\* that cid.  On the wire no event of a channel follows the channel's
\* Shutdown, so that Shutdown is its last event and is emitted at most once.
C18_ShutdownLast ==
    /\ [][TakesRem =>
            LET cid == Head(closeSendQ) IN
            /\ cid \notin send_protocols'
            /\ wire' = wire
            /\ cid \in send_protocols
               => send_pc' = "rem" /\ pending' = ShutdownEv(cid)
            /\ cid \notin send_protocols
               => /\ send_pc' # "rem"
                  /\ send_pc' = "send" => pending'.cid # cid]_vars
    /\ [][(send_pc = "rem" /\ send_pc' # "rem") =>
            wire' = IF pending.cid \in broken THEN wire
                    ELSE Append(wire, pending)]_vars
    /\ [](send_pc = "rem" =>
            pending.type = "Shutdown" /\ pending.cid \notin send_protocols)
    /\ [](\A i, j \in 1..Len(wire) :
            (i < j /\ wire[i].type = "Shutdown") => wire[j].cid # wire[i].cid)

\* channel 0 was closed after it carried a stream, both the Recv Manager's
\* and the coordinator's request for it were taken, and the Send Manager
\* goes on with channel 1
C18_Witness ==
    /\ \E i, j \in 1..Len(wire) :
         /\ i < j /\ wire[i].type = "OpenStream" /\ wire[i].cid = ActiveCid
         /\ wire[j] = ShutdownEv(ActiveCid)
    /\ send_pc = "select" /\ send_protocols = {SecondCid}
    /\ shut_pc = "wait1" /\ ActiveCid \notin Named(closeSendQ)
    /\ ActiveCid \in channels /\ addRecvQ = << >> /\ funnel = << >>
    /\ recv_pc = "loop" /\ ActiveCid \notin recv_protocols

\* C19: the Send Manager leaves its loop only when it has processed a
\* close_send_protocol request and finds the table empty: in the step that
\* takes a request for a cid without a half, or in the step in which the
\* send of Shutdown on the removed half returns; it subtracts BARR_SEND in
\* that step.  Every close_send_protocol that leaves the table empty ends
\* the loop, whether or not the request named a registered half.
C19_SendExit ==
    /\ [][(send_pc # "done" /\ send_pc' = "done") =>
            /\ \/ TakesRem /\ Head(closeSendQ) \notin send_protocols
               \/ send_pc = "rem"
            /\ send_protocols = {} /\ send_protocols' = {}
            /\ shutdown_barrier' = shutdown_barrier - BARR_SEND]_vars
    /\ [][(TakesRem /\ Head(closeSendQ) \notin send_protocols) =>
            (send_pc' = "done" <=> send_protocols = {})]_vars
    /\ [][(TakesRem /\ Head(closeSendQ) \in send_protocols) =>
            send_pc' = "rem"]_vars
    /\ [][(send_pc = "rem" /\ send_pc' # "rem") =>
            (send_pc' = "done" <=> send_protocols = {})]_vars

\* the only channel lost its send half to a failed OpenStream, the manager
\* kept running with an empty table, and a later close_send_protocol for
\* the removed cid ended it
C19_Witness ==
    /\ send_pc = "done" /\ attached = {ActiveCid}
    /\ \E i \in 1..Len(openLog) : openLog[i].handle /\ ~openLog[i].emitted
    /\ \A i \in 1..Len(wire) : wire[i].type # "Shutdown"

\* ------------------------------------------------------------ claims: send failure

\* the active half is registered and its transport has failed
ActiveFailed == ActiveCid \in send_protocols /\ ActiveCid \in broken

\* the step in which the awaited send or flush on the active half returns
SendReturns ==
    /\ send_pc \in {"send", "flush"}
    /\ <<send_pc, pending>>' # <<send_pc, pending>>

\* C20: nothing is emitted on a channel whose transport has failed.  When a
\* send or the flush on the active half returns an error the half is removed
\* from the table and the rest of the iteration is skipped: nothing goes on
\* the wire, no further tuple is taken from the queue, a close request not
\* yet reached is not carried out, and the manager is back at its select;
\* the stream table is left as it is, so that a stream registered or deleted
\* before the failing send stays registered or deleted.
C20_SendFailure ==
    /\ [][\A i \in (Len(wire) + 1)..Len(wire') : wire'[i].cid \notin broken]_vars
    /\ [](send_pc \in {"send", "flush"} => ActiveCid \in send_protocols)
    /\ [][(SendReturns /\ ActiveFailed) =>
            /\ ActiveCid \notin send_protocols' /\ send_pc' = "select"
            /\ wire' = wire /\ msgQ' = msgQ
            /\ stream_ids' = stream_ids
            /\ streams' = streams /\ objs' = objs]_vars

\* an open request was registered, its OpenStream failed, the stream is
\* still in the table and channel 0 is gone from the send table while
\* channel 1 stays
C20_Witness ==
    /\ \E i \in 1..Len(openLog) :
         /\ openLog[i].handle /\ ~openLog[i].emitted
         /\ InTable(streams, openLog[i].sid)
    /\ send_pc = "select" /\ send_protocols = {SecondCid}
    /\ ActiveCid \in broken

\* ------------------------------------------------------------ claims: close_stream

\* C21 (as claimed): every close request the Send Manager has taken from the
\* close queue deleted its stream, and its CloseStream was emitted unless
\* the transport of the active channel had failed.
C21_CloseDeletes ==
    \A i \in 1..Len(closeLog) :
        /\ closeLog[i].deleted
        /\ closeLog[i].emitted \/ ActiveCid \in broken

\* ------------------------------------------------------------ claims: shutdown

\* C22 (as claimed): the tuples that are in the send queue when the
\* close_send_protocol request for the active channel is processed are
\* emitted as Messages on that channel before the Shutdown: the step that
\* takes the request does not go on to the send of Shutdown while a tuple
\* is queued.
C22_QueueClearedFirst ==
    [][(/\ TakesRem /\ Head(closeSendQ) = ActiveCid
        /\ ActiveCid \in send_protocols /\ ActiveCid \notin broken
        /\ msgQ # << >>)
       => ~(send_pc' = "rem" /\ pending' = ShutdownEv(ActiveCid))]_vars

\* C23 (as claimed): once the coordinator has processed the shutdown request
\* (it has marked the streams), no open request registers a stream or
\* returns a handle, and every stream in the table has send_closed set.
C23_NoOpenAfterShutdown ==
    /\ \A i \in 1..Len(openLog) : openLog[i].shutdown => ~openLog[i].handle
    /\ shut_pc # "wait" =>
         \A sid \in SidSet : InTable(streams, sid) => objs[streams[sid]].send_closed

\* the streams of the table all have send_closed set in the next state
AllMarked ==
    \A sid \in SidSet :
        InTable(streams, sid) => objs'[streams[sid]].send_closed

\* C24: the coordinator's first step after the request marks every stream of
\* the table and requests nothing; its next step requests
\* close_send_protocol once for every cid of the channel table (unless the
\* Send Manager is gone) and only then the wait on the barrier starts;
\* force_close_recv_protocol is requested only in the step of the timeout.
C24_StepOrder ==
    /\ [][(shut_pc = "wait" /\ shut_pc' # "wait") =>
            /\ shut_pc' = "marked" /\ AllMarked
            /\ closeSendQ' = closeSendQ /\ forceQ' = forceQ]_vars
    /\ [][(shut_pc = "marked" /\ shut_pc' # "marked") =>
            /\ shut_pc' = "wait1" /\ forceQ' = forceQ
            /\ send_pc # "done" =>
                 \E q \in Orders(channels) : closeSendQ' = closeSendQ \o q]_vars
    /\ [][shut_pc' \in {"wait1", "wait2", "done"} =>
            shut_pc \in {"marked", "wait1", "wait2", "done"}]_vars
    /\ [][Len(forceQ') > Len(forceQ) => (~timedOut /\ timedOut')]_vars
    /\ [](forceQ # << >> => timedOut)

\* after the timeout: the stream opened before the request is marked, and
\* both kinds of request were made for both channels
C24_Witness ==
    /\ timedOut /\ Named(forceQ) = Cids
    /\ Named(closeSendQ) = Cids
    /\ \E sid \in SidSet :
         InTable(streams, sid) /\ objs[streams[sid]].send_closed

\* ------------------------------------------------------------ claims: peer close

\* the step in which the Recv Manager handles a Shutdown or error result
TakesShutdown ==
    /\ recv_pc = "loop" /\ funnel # << >> /\ forceQ = << >>
    /\ Head(funnel).type \in {"Shutdown", "Err"}
    /\ funnel' = Tail(funnel) \/ recv_pc' = "done"

\* C25: handling a Shutdown or an error result of channel cid requests
\* close_send_protocol(cid) (the request is lost when the Send Manager is
\* gone), removes cid from the recv table without a new receive task, and
\* leaves the loop, subtracting BARR_RECV, exactly when the table is then
\* empty; the stream table is not changed.  The result's kind plays no part.
C25_PeerClose ==
    [][TakesShutdown =>
         LET cid == Head(funnel).cid IN
         /\ closeSendQ' = IF send_pc = "done" THEN closeSendQ
                          ELSE Append(closeSendQ, cid)
         /\ recv_protocols' = recv_protocols \ {cid}
         /\ cid \notin armed'
         /\ recv_pc' = "done" <=> recv_protocols \ {cid} = {}
         /\ shutdown_barrier' = IF recv_pc' = "done"
                                THEN shutdown_barrier - BARR_RECV
                                ELSE shutdown_barrier
         /\ streams' = streams /\ objs' = objs]_vars

\* the peer closed channel 0 while a stream was registered: the request for
\* its send half is queued, channel 1 keeps the Recv Manager running
C25_Witness ==
    /\ recv_pc = "loop" /\ recv_protocols = {SecondCid}
    /\ ActiveCid \in channels /\ addRecvQ = << >>
    /\ ActiveCid \in Named(closeSendQ) /\ ~shutdownReq
    /\ \E sid \in SidSet : InTable(streams, sid)

\* the funnel holds a Shutdown or error result of channel c
PeerClosed(c) ==
    \E i \in 1..Len(funnel) :
        funnel[i].cid = c /\ funnel[i].type \in {"Shutdown", "Err"}

\* Shutdown was emitted on channel c
ShutdownSent(c) == \E i \in 1..Len(wire) : wire[i] = ShutdownEv(c)

\* C26 (as claimed): when the peer's Shutdown (or a receive error) of
\* channel c is in the funnel while the Send Manager runs and holds c's
\* send half, Shutdown is eventually emitted on c and the half dropped; and
\* when that holds for every channel there is, both managers eventually
\* exit, with no local shutdown request.
C26_Reciprocated ==
    /\ \A c \in Cids :
         (PeerClosed(c) /\ send_pc # "done" /\ c \in send_protocols)
         ~> (c \notin send_protocols /\ ShutdownSent(c))
    /\ (/\ channels # {} /\ send_pc # "done"
        /\ send_protocols = channels /\ recv_protocols = channels
        /\ \A c \in channels : PeerClosed(c))
       ~> (send_pc = "done" /\ recv_pc = "done" /\ ~shutdownReq)

\* ------------------------------------------------------------ claims: delivery

\* the step in which the Recv Manager handles a Message it has taken from
\* the funnel
TakesMessage == RecvHandles("Message")

\* the step in which the Recv Manager takes a Message from the funnel
SelectsMessage ==
    /\ recv_pc = "loop" /\ funnel # << >> /\ Head(funnel).type = "Message"
    /\ funnel' = Tail(funnel) /\ recv_cur' = Head(funnel)

\* C27 (as claimed): taking and handling a Message for a sid that is not
\* in the stream table changes neither the table nor any stream or
\* mailbox, publishes no handle, re-arms the channel the event came on,
\* and lets every manager run on.
C27_OrphanDropped ==
    /\ [][(SelectsMessage /\ ~InTable(streams, Head(funnel).sid)) =>
            /\ streams' = streams /\ objs' = objs /\ opened_out' = opened_out
            /\ recv_pc' = "event" /\ send_pc' = send_pc /\ chan_pc' = chan_pc
            /\ shutdown_barrier' = shutdown_barrier
            /\ ~crashed']_vars
    /\ [][(TakesMessage /\ ~InTable(streams, recv_cur.sid)) =>
            /\ streams' = streams /\ objs' = objs /\ opened_out' = opened_out
            /\ recv_cur.cid \in recv_protocols'
            /\ recv_cur.cid \in armed'
            /\ recv_pc' = "loop" /\ send_pc' = send_pc /\ chan_pc' = chan_pc
            /\ shutdown_barrier' = shutdown_barrier
            /\ ~crashed']_vars

\* C28 (as claimed): handling a Message for a registered sid appends its
\* buffer to the mailbox of the table's entry of that sid and changes
\* nothing else of the streams; buffers are numbered in the order recv()
\* returned them, and every mailbox holds its buffers in that order, none
\* twice; a channel has at most one event in the funnel or in the
\* manager's hands, and none while its receive task is in flight.
C28_InboundOrder ==
    /\ [][(TakesMessage /\ InTable(streams, recv_cur.sid)) =>
            /\ objs' = [objs EXCEPT ![streams[recv_cur.sid]].mbox =
                                       Append(@, recv_cur.data)]
            /\ streams' = streams]_vars
    /\ [](\A h \in 1..Len(objs) : \A i, j \in 1..Len(objs[h].mbox) :
            i < j => objs[h].mbox[i] < objs[h].mbox[j])
    /\ [](\A i, j \in 1..Len(funnel) :
            i # j => funnel[i].cid # funnel[j].cid)
    /\ [](\A i \in 1..Len(funnel) :
            /\ funnel[i].cid \notin armed
            /\ recv_pc \in {"event", "close_mbox"}
                 => funnel[i].cid # recv_cur.cid)
    /\ [](recv_pc \in {"event", "close_mbox"} => recv_cur.cid \notin armed)

\* C29: no step pushes a buffer onto a mailbox that is closed; the entry of
\* a sid in the table always has its mailbox open, and a Message handled
\* between the two parts of a delete_stream of its sid finds no entry, or
\* the entry of a stream created since, and leaves the StreamInfo that was
\* removed as it is.
C29_NoPushAfterClose ==
    /\ [][\A h \in 1..Len(objs) :
            objs[h].mbox_closed => objs'[h].mbox = objs[h].mbox]_vars
    /\ [](\A sid \in SidSet :
            InTable(streams, sid) => ~objs[streams[sid]].mbox_closed)
    /\ [](send_pc = "close_mbox" =>
            /\ send_held # 0 /\ objs[send_held].sid = cur_close.sid
            /\ streams[cur_close.sid] # send_held)
    /\ [][(/\ TakesMessage /\ send_pc = "close_mbox"
           /\ recv_cur.sid = cur_close.sid)
          => /\ objs'[send_held].mbox = objs[send_held].mbox
             /\ ~InTable(streams, recv_cur.sid) => objs' = objs]_vars

\* the Send Manager has removed the entry of the stream and not yet closed
\* its mailbox, a Message was delivered to it before, and the Recv Manager
\* has taken the next Message for its sid from the funnel
C29_Witness ==
    /\ send_pc = "close_mbox" /\ ~InTable(streams, cur_close.sid)
    /\ objs[send_held].mbox # << >> /\ ~objs[send_held].mbox_closed
    /\ recv_pc = "event" /\ recv_cur.type = "Message"
    /\ recv_cur.sid = cur_close.sid

\* ------------------------------------------------------------ claims: delete_stream

\* delete_stream(sid) applied to the table tbl and the objects os, when
\* nothing runs between its two parts
DeleteStream(tbl, os, sid) ==
    [streams |-> StreamsRemove(tbl, sid),
     objs |-> CloseHeld(MarkRemoved(tbl, os, sid), Held(tbl, sid))]

\* what C30 says of delete_stream(sid) applied to (tbl, os)
DeleteLaw(tbl, os, sid) ==
    LET d == DeleteStream(tbl, os, sid) IN
    /\ ~InTable(d.streams, sid)
    /\ Len(d.objs) = Len(os)
    /\ InTable(tbl, sid) =>
         d.objs[tbl[sid]] = [os[tbl[sid]] EXCEPT !.send_closed = TRUE,
                                                 !.mbox_closed = TRUE]
    /\ ~InTable(tbl, sid) => (d.streams = tbl /\ d.objs = os)
    /\ \A t \in SidSet \ {sid} : d.streams[t] = tbl[t]
    /\ \A h \in 1..Len(os) : h # tbl[sid] => d.objs[h] = os[h]
    /\ DeleteStream(d.streams, d.objs, sid) = d

\* the first part of a delete_stream(sid): the step from (tbl, os)
DeleteFirst(sid) ==
    /\ streams' = StreamsRemove(streams, sid)
    /\ objs' = MarkRemoved(streams, objs, sid)

\* C30: in every reachable stream table, for every sid, delete_stream
\* removes the entry of sid, sets send_closed and closes the mailbox of the
\* entry it found, changes nothing when there is none, leaves every other
\* entry and object alone, and applied again changes nothing; and the close
\* steps of the Send Manager and of the Recv Manager are the two parts of
\* that function, applied to the requested sid: the first removes the entry
\* and sets the flag of the StreamInfo it found, which the manager then
\* holds, and the second closes the mailbox of the StreamInfo held and
\* nothing else; with no entry the call ends with its first part.
C30_DeleteStream ==
    /\ [](\A sid \in SidSet : DeleteLaw(streams, objs, sid))
    /\ [][(send_pc = "close" /\ send_pc' # "close") =>
            /\ DeleteFirst(cur_close.sid)
            /\ send_held' = streams[cur_close.sid]
            /\ send_pc' = IF InTable(streams, cur_close.sid)
                          THEN "close_mbox" ELSE "send"]_vars
    /\ [][(send_pc = "close_mbox" /\ send_pc' # "close_mbox") =>
            /\ streams' = streams
            /\ objs' = [objs EXCEPT ![send_held].mbox_closed = TRUE]
            /\ objs'[send_held].send_closed]_vars
    /\ [][RecvHandles("CloseStream") =>
            /\ DeleteFirst(recv_cur.sid)
            /\ recv_held' = streams[recv_cur.sid]
            /\ recv_pc' = IF InTable(streams, recv_cur.sid)
                          THEN "close_mbox" ELSE "loop"]_vars
    /\ [][(recv_pc = "close_mbox" /\ recv_pc' # "close_mbox") =>
            /\ streams' = streams
            /\ objs' = [objs EXCEPT ![recv_held].mbox_closed = TRUE]
            /\ objs'[recv_held].send_closed]_vars

\* two streams were registered, the first was deleted and the second is
\* untouched in the table
C30_Witness ==
    /\ \E i \in 1..Len(closeLog) :
         closeLog[i].deleted /\ closeLog[i].sid = OffsetSid
    /\ ~InTable(streams, OffsetSid)
    /\ \E h \in 1..Len(objs) :
         objs[h].sid = OffsetSid /\ objs[h].send_closed /\ objs[h].mbox_closed
    /\ InTable(streams, OffsetSid + 1)
    /\ ~objs[streams[OffsetSid + 1]].send_closed
    /\ ~objs[streams[OffsetSid + 1]].mbox_closed

\* ------------------------------------------------------------ claims: simultaneous close

\* a manager holds the StreamInfo h it has removed and not yet closed
HeldByManager(h) ==
    \/ send_pc = "close_mbox" /\ h = send_held
    \/ recv_pc = "close_mbox" /\ h = recv_held

\* C31: whichever of the local close and the peer's CloseStream of a sid is
\* handled first takes the entry out of the table, the other finds none and
\* changes nothing; no StreamInfo is held by both managers; a StreamInfo
\* that is out of the table has send_closed set, and its mailbox closed as
\* soon as the delete_stream that removed it has finished, one that is in
\* the table has neither; and no step of either deletion ends a manager,
\* makes it panic or takes a half from it.
C31_SimultaneousClose ==
    /\ [](~crashed => \A h \in 1..Len(objs) :
            IF streams[objs[h].sid] = h
            THEN ~objs[h].send_closed /\ ~objs[h].mbox_closed
            ELSE /\ objs[h].send_closed
                 /\ objs[h].mbox_closed <=> ~HeldByManager(h))
    /\ [](~(send_pc = "close_mbox" /\ recv_pc = "close_mbox"
            /\ send_held = recv_held))
    /\ [][RecvHandles("CloseStream") =>
            LET sid == recv_cur.sid IN
            /\ ~InTable(streams', sid)
            /\ ~InTable(streams, sid)
                 => (streams' = streams /\ objs' = objs /\ recv_pc' = "loop")
            /\ recv_pc' = "loop" => recv_cur.cid \in armed']_vars
    /\ [][(recv_pc = "close_mbox" /\ recv_pc' # "close_mbox") =>
            recv_pc' = "loop" /\ recv_cur.cid \in armed']_vars
    /\ [][(send_pc = "close" /\ send_pc' # "close") =>
            /\ ~InTable(streams', cur_close.sid)
            /\ ~InTable(streams, cur_close.sid)
                 => (streams' = streams /\ objs' = objs)]_vars
    /\ [][(\/ send_pc \in {"close", "close_mbox"} /\ send_pc' # send_pc
           \/ RecvHandles("CloseStream")
           \/ recv_pc = "close_mbox" /\ recv_pc' # "close_mbox")
          => /\ ~crashed'
             /\ send_pc' # "done" /\ recv_pc' # "done"
             /\ send_protocols' = send_protocols
             /\ recv_protocols' = recv_protocols]_vars

\* the Send Manager has taken the close request of stream 1000 and is about
\* to delete it, and the Recv Manager has deleted it meanwhile on the
\* peer's CloseStream
C31_Witness ==
    /\ send_pc = "close" /\ cur_close.sid = OffsetSid
    /\ ~InTable(streams, OffsetSid)
    /\ \E h \in 1..Len(objs) :
         objs[h].sid = OffsetSid /\ objs[h].send_closed /\ objs[h].mbox_closed
    /\ peerCount = 1 /\ funnel = << >> /\ recv_pc = "loop"

\* ------------------------------------------------------------ claims: attach

\* the receive tasks of cid in flight: the one whose JoinHandle the map
\* holds and those whose JoinHandle was replaced
InFlight(cid) == (IF cid \in armed THEN 1 ELSE 0) + orphans[cid]

\* C32 (as claimed): in every reachable state each cid has at most one
\* receive task in flight, also when add_recv_protocol arrives twice for the
\* same cid.
C32_OneCurrentReceive == \A cid \in Cids : InFlight(cid) <= 1

\* the live recv halves of cid: each is held by a receive task in flight or
\* by a funnel event
Holders(cid) ==
    InFlight(cid) + Cardinality({i \in 1..Len(funnel) : funnel[i].cid = cid})

\* the attaches of cid have gone through both managers
Processed(cid) ==
    /\ cid \in acked /\ send_pc = "select"
    /\ \A i \in 1..Len(attachQ) : attachQ[i] # cid
    /\ \A i \in 1..Len(addSendQ) : addSendQ[i] # cid
    /\ \A i \in 1..Len(addRecvQ) : addRecvQ[i] # cid

\* C33 (as claimed): a cid that was attached and processed by both managers,
\* and not closed since, has one send half in the send table, one entry in
\* the recv table and one live recv half, also after a second attach with
\* the same cid.
C33_CidUnique ==
    \A cid \in Cids :
        Processed(cid) =>
            /\ cid \in channels
            /\ cid \in send_protocols
            /\ cid \in recv_protocols
            /\ Holders(cid) = 1

\* C34: an attach is acknowledged only in the step that has inserted its
\* cid into the channel table and enqueued both halves, whatever the order
\* in which the attaches under way complete; add_send_protocol is a queue,
\* and the half of the attach acknowledged first is at its front until the
\* Send Manager, which takes nothing else during its startup wait, leaves
\* the wait by registering it; open requests are taken only at the select,
\* after the wait, and a stream is created only for a request so taken.
C34_AttachOrder ==
    /\ [][\A cid \in acked' \ acked :
             /\ cid \in attaching /\ cid \notin attaching'
             /\ cid \in channels'
             /\ addSendQ' = Append(addSendQ, cid)
             /\ addRecvQ' = Append(addRecvQ, cid)]_vars
    /\ [][addSendQ' # addSendQ =>
             \/ addSendQ # << >> /\ addSendQ' = Tail(addSendQ)
             \/ \E cid \in Cids : addSendQ' = Append(addSendQ, cid)
             \/ send_pc' = "done" \/ crashed']_vars
    /\ [][(acked = {} /\ acked' # {} /\ send_pc = "wait_first") =>
             acked' = {Head(addSendQ')}]_vars
    /\ [](acked # {} /\ send_pc = "wait_first" =>
              /\ addSendQ # << >> /\ Head(addSendQ) \in acked
              /\ send_protocols = {}
              /\ openLog = << >> /\ stream_ids = OffsetSid)
    /\ [][acked # {} /\ send_pc = "wait_first" /\ send_pc' # "wait_first" =>
             /\ send_protocols' = {Head(addSendQ)}
             /\ send_pc' = "select"
             /\ openQ' = openQ /\ openLog' = openLog]_vars
    /\ [][Len(openQ') < Len(openQ) => send_pc = "select"]_vars
    /\ [][Len(openLog') > Len(openLog) => send_pc \in {"select", "open"}]_vars
    /\ [][send_pc' = "open" => send_pc \in {"select", "open"}]_vars

\* both attaches are acknowledged, the first one's half is registered and
\* an open request submitted after it has been served on it
C34_Witness ==
    /\ acked = Cids /\ ActiveCid \in send_protocols
    /\ Len(openLog) = 1 /\ openLog[1].handle /\ openLog[1].emitted
    /\ ~crashed

\* C35: the Channel Attach Manager exits, subtracting BARR_CHANNEL, only
\* when the attach input is closed and every attach submitted has been
\* acknowledged; only the caller closes the attach input; while it is open
\* the manager runs, the barrier holds BARR_CHANNEL and the shutdown reply
\* is not sent, also after the timeout and the force-close.
C35_AttachInputOpen ==
    /\ [](attachOpen =>
              /\ chan_pc = "run"
              /\ shutdown_barrier >= BARR_CHANNEL
              /\ shutdown_barrier % (2 * BARR_CHANNEL) = BARR_CHANNEL
              /\ ~replied /\ shut_pc # "done")
    /\ [][chan_pc = "run" /\ chan_pc' = "done" =>
             /\ ~attachOpen /\ attachQ = << >> /\ attaching = {}
             /\ attached = acked
             /\ shutdown_barrier' = shutdown_barrier - BARR_CHANNEL]_vars
    /\ [][shutdown_barrier' % (2 * BARR_CHANNEL) # shutdown_barrier % (2 * BARR_CHANNEL)
             => chan_pc = "run" /\ chan_pc' = "done"]_vars
    /\ [][attachOpen /\ ~attachOpen' =>
             /\ shut_pc' = shut_pc /\ forceQ' = forceQ
             /\ closeSendQ' = closeSendQ /\ timedOut' = timedOut]_vars

\* the coordinator has timed out and force-closed, the Send and the Recv
\* Manager have exited, and the reply waits for the attach input, which the
\* caller still holds open
C35_Witness ==
    /\ attachOpen /\ shutdownReq /\ timedOut /\ shut_pc = "wait2"
    /\ send_pc = "done" /\ recv_pc = "done" /\ chan_pc = "run"
    /\ shutdown_barrier = BARR_CHANNEL /\ ~replied /\ ~crashed

\* C36: run() has returned only if the shutdown request was sent and the
\* reply given; until the request is sent the coordinator waits for it,
\* whatever the other managers have done, and the step that lets run()
\* return is the one that sends the reply or a later one.
C36_ReturnAfterShutdown ==
    /\ [](RunReturned => shutdownReq /\ replied)
    /\ [](~shutdownReq => shut_pc = "wait" /\ ~replied /\ ~RunReturned)
    /\ [][~RunReturned /\ RunReturned' => replied']_vars
    /\ [][~replied /\ replied' => shutdownReq /\ shut_pc = "wait2"]_vars

\* every channel is gone and the Send, the Recv and the Attach Manager have
\* exited on their own; no shutdown was requested and run() is pending
C36_Witness ==
    /\ send_pc = "done" /\ recv_pc = "done" /\ chan_pc = "done"
    /\ send_protocols = {} /\ recv_protocols = {} /\ channels # {}
    /\ shutdown_barrier = 0
    /\ ~shutdownReq /\ shut_pc = "wait" /\ ~RunReturned /\ ~crashed

\* C37 (as claimed): during its startup wait the Send Manager takes no
\* request and no buffer, registers no stream, mints no sid and emits
\* nothing, the open requests submitted meanwhile stay queued in order, and
\* once the first send half is registered the requests it takes are served.
C37_StartupRule ==
    /\ [](send_pc = "wait_first" =>
              /\ openLog = << >> /\ closeLog = << >> /\ wire = << >>
              /\ lost = {} /\ objs = << >> /\ stream_ids = OffsetSid
              /\ send_protocols = {})
    /\ [][send_pc = "wait_first" =>
             /\ Len(openQ) <= Len(openQ')
             /\ SubSeq(openQ', 1, Len(openQ)) = openQ]_vars
    /\ [][(TakesOpen /\ send_protocols # {} /\ broken = {})
             => send_pc' = "open"]_vars

\* the cids of the requests in queue q
Requested(q) == {q[i] : i \in 1..Len(q)}

\* run() has returned or unwound, and BParticipant is dropped
RunOver == crashed \/ RunReturned

\* C38: as long as run() has neither returned nor unwound, no step removes
\* a cid from the channel table and every acknowledged cid is in it, so
\* the coordinator's assertion holds once an attach was
\* acknowledged; the coordinator's close requests, and after a timeout its
\* force-close requests, are one per cid of the table, whether or not the
\* managers still hold the halves of that cid.
C38_ChannelTableGrows ==
    /\ [][~RunOver' => channels \subseteq channels']_vars
    /\ [](~RunOver => acked \subseteq channels)
    /\ [][(shut_pc = "marked" /\ shut_pc' # "marked" /\ acked # {})
             => /\ shut_pc' = "wait1" /\ crashed' = crashed
                /\ send_pc # "done" =>
                      \E q \in Orders(channels) :
                          /\ closeSendQ' = closeSendQ \o q
                          /\ acked \subseteq Requested(q)]_vars
    /\ [][(~timedOut /\ timedOut' /\ recv_pc # "done")
             => \E q \in Orders(channels) :
                    /\ forceQ' = forceQ \o q
                    /\ acked \subseteq Requested(q)]_vars

\* the Send and the Recv Manager have dropped the halves of one of the two
\* channels, which is still in the channel table, and the coordinator has
\* issued its close request for it
C38_Witness ==
    /\ shut_pc = "wait1" /\ send_pc = "select" /\ recv_pc = "loop"
    /\ acked = Cids /\ channels = Cids
    /\ addSendQ = << >> /\ addRecvQ = << >> /\ ~crashed
    /\ \E c \in Cids :
          /\ c \notin send_protocols /\ c \notin recv_protocols
          /\ c \in Requested(closeSendQ)

====
